---- MODULE Spec2Model ----
(***************************************************************************)
(* Pipeline execution and state management core of caption-extractor:      *)
(* the per-item pipeline state (PipelineStateManager), the step executors  *)
(* (StepProcessor) and the two batch orchestrators, item-major             *)
(* (pipeline.ImageProcessor) and step-major (BatchProcessorBySteps).       *)
(*                                                                         *)
(* Timestamps are left out of the state; a duration is a natural number.   *)
(* Engine payloads are opaque to the core and are modelled by tags that    *)
(* keep only what the executors read (presence, text, needTranslation).    *)
(***************************************************************************)
EXTENDS Integers, Sequences, FiniteSets, TLC

(* ------------------------------ bounds --------------------------------- *)
NumItems == 2
MaxRuns == 2
MaxDeviations == 2
MaxResumeDeviations == 1
MaxThreads == 2
MaxPasses == 2

Items == 1..NumItems

(* ------------------- PipelineStateManager: the record ------------------ *)
pipeline_steps ==
    << "ocr_processing", "image_agent_analysis", "text_agent_processing",
       "translation", "metadata_combination" >>

StepIdx == DOMAIN pipeline_steps
StepNames == { pipeline_steps[n] : n \in StepIdx }

NoData == "none"
NoError == "none"
NoStep == "none"
NoDuration == 0 - 1

_get_result_key(step) ==
    CASE step = "ocr_processing" -> "ocr_data"
      [] step = "image_agent_analysis" -> "vl_model_data"
      [] step = "text_agent_processing" -> "text_processing"
      [] step = "translation" -> "translation_result"
      [] step = "metadata_combination" -> "combined_metadata"
      [] OTHER -> step

ResultKeys == { _get_result_key(s) : s \in StepNames }

PristineStep ==
    [ status |-> "pending", duration |-> NoDuration,
      error |-> NoError, data |-> NoData ]

create_initial_state ==
    [ overall_status |-> "pending",
      current_step |-> pipeline_steps[1],
      steps |-> [ s \in StepNames |-> PristineStep ],
      results |-> [ r \in ResultKeys |-> NoData ],
      total_processing_time |-> 0,
      failed_steps |-> << >> ]

(* A document at the item's .yml path that is no pipeline state: it loads  *)
(* as a mapping without the pipeline_status key.                           *)
LegacyDoc == [ legacy |-> TRUE ]
Absent == [ absent |-> TRUE ]

(* The file save_state leaves when it is cut short: open(yaml_path, 'w')   *)
(* has truncated the file and yaml.dump has written no more than a prefix  *)
(* of the new document.                                                    *)
HalfWritten == [ half_written |-> TRUE ]

IsState(doc) == doc \notin { Absent, LegacyDoc, HalfWritten }

get_step_status(state, step) ==
    IF IsState(state) THEN state.steps[step].status ELSE "pending"

is_step_completed(state, step) == get_step_status(state, step) = "completed"

is_step_failed(state, step) == get_step_status(state, step) = "failed"

SeqContains(seq, x) == \E n \in DOMAIN seq : seq[n] = x

RECURSIVE SeqRemove(_, _)
SeqRemove(seq, x) ==
    IF seq = << >> THEN << >>
    ELSE IF Head(seq) = x THEN Tail(seq)
    ELSE << Head(seq) >> \o SeqRemove(Tail(seq), x)

mark_step_running(state, step) ==
    [ state EXCEPT !.steps[step].status = "running",
                   !.current_step = step,
                   !.overall_status = "running" ]

mark_step_completed(state, step, data, duration) ==
    LET s1 == [ state EXCEPT !.steps[step].status = "completed",
                             !.steps[step].duration = duration ]
    IN  IF data # NoData
        THEN [ s1 EXCEPT !.results[_get_result_key(step)] = data,
                         !.steps[step].data = data ]
        ELSE s1

mark_step_failed_StatusOnly(state, step, error) ==
    [ state EXCEPT !.steps[step].status = "failed",
                   !.steps[step].error = error ]

mark_step_failed_KeepsStatus(state, step, error) ==
    [ state EXCEPT !.steps[step].error = error,
                   !.overall_status = "failed",
                   !.failed_steps =
                       IF SeqContains(@, step) THEN @ ELSE Append(@, step) ]

mark_step_failed(state, step, error) ==
    [ state EXCEPT !.steps[step].status = "failed",
                   !.steps[step].error = error,
                   !.overall_status = "failed",
                   !.failed_steps =
                       IF SeqContains(@, step) THEN @ ELSE Append(@, step) ]

mark_step_skipped_AsFailed(state, step, reason) ==
    mark_step_failed(state, step, reason)

mark_step_skipped(state, step, reason) ==
    [ state EXCEPT !.steps[step].status = "skipped",
                   !.steps[step].error = "Skipped: " \o reason ]

RECURSIVE SumDurations(_, _)
SumDurations(state, n) ==
    IF n = 0 THEN 0
    ELSE SumDurations(state, n - 1) +
         ( IF state.steps[pipeline_steps[n]].duration > 0
           THEN state.steps[pipeline_steps[n]].duration ELSE 0 )

mark_pipeline_completed_KeepsTotal(state) ==
    [ state EXCEPT !.overall_status = "completed",
                   !.current_step = NoStep ]

mark_pipeline_completed(state) ==
    [ state EXCEPT !.overall_status = "completed",
                   !.current_step = NoStep,
                   !.total_processing_time =
                       SumDurations(state, Len(pipeline_steps)) ]

reset_failed_step_KeepsList(state, step) ==
    [ state EXCEPT !.steps[step] = PristineStep ]

reset_failed_step(state, step) ==
    [ state EXCEPT !.steps[step] = PristineStep,
                   !.failed_steps = SeqRemove(@, step) ]

(* ----------------------- engines (external) ---------------------------- *)
(* What an engine call can answer: a payload, nothing (None or an empty    *)
(* result), or an exception.  The text agent's payload carries the         *)
(* needTranslation flag: "ok" has it set, "ok_final" has it clear,          *)
(* "ok_no_text" has it set with neither primary_text nor corrected_text.   *)
Responses(step) ==
    CASE step = "text_agent_processing" -> { "ok", "ok_final", "ok_no_text", "empty", "error" }
      [] step = "ocr_processing" -> { "ok", "empty", "error", "no_file" }
      [] OTHER -> { "ok", "empty", "error" }

Durations == { 1 }

EngineError(i, step) == "engine error: " \o step \o " #" \o ToString(i)

(* ------------------------- StepProcessor ------------------------------- *)
Outcome(success, state, called) ==
    [ success |-> success, state |-> state, called |-> called,
      used |-> called, raised |-> FALSE ]

(* os.path.exists(image_path) is false: FileNotFoundError inside the try   *)
(* block, before the engine is called.                                     *)
ImageMissingOutcome(state) ==
    [ success |-> FALSE, state |-> state, called |-> FALSE, used |-> TRUE,
      raised |-> FALSE ]

(* mark_step_running on a mapping without pipeline_status raises KeyError  *)
(* before the executor's try block is entered.                             *)
KeyErrorOutcome(state) ==
    [ success |-> FALSE, state |-> state, called |-> FALSE, used |-> FALSE,
      raised |-> TRUE ]

AlreadyCompleted_Never(state, step, skip_if_completed) == FALSE

AlreadyCompleted(state, step, skip_if_completed) ==
    skip_if_completed /\ is_step_completed(state, step)

process_ocr_step(i, state, r, d, skip_if_completed) ==
    LET step == "ocr_processing" IN
    IF AlreadyCompleted(state, step, skip_if_completed)
    THEN Outcome(TRUE, mark_step_skipped(state, step, "Already completed"),
                 FALSE)
    ELSE IF ~IsState(state) THEN KeyErrorOutcome(state)
    ELSE LET st == mark_step_running(state, step) IN
         IF r = "no_file"
         THEN ImageMissingOutcome(
                  mark_step_failed(st, step, "Image file not found"))
         ELSE IF r = "error"
         THEN Outcome(FALSE, mark_step_failed(st, step, EngineError(i, step)),
                      TRUE)
         ELSE Outcome(TRUE,
                      mark_step_completed(st, step,
                          IF r = "ok" THEN "ocr_text" ELSE "ocr_blank", d),
                      TRUE)

process_image_agent_step(i, state, r, d, skip_if_completed) ==
    LET step == "image_agent_analysis" IN
    IF AlreadyCompleted(state, step, skip_if_completed)
    THEN Outcome(TRUE, mark_step_skipped(state, step, "Already completed"),
                 FALSE)
    ELSE IF ~IsState(state) THEN KeyErrorOutcome(state)
    ELSE LET st == mark_step_running(state, step) IN
         CASE r = "error" ->
                Outcome(FALSE,
                        mark_step_failed(st, step, EngineError(i, step)), TRUE)
           [] r = "empty" ->
                Outcome(FALSE,
                        mark_step_failed(st, step,
                            "Image agent returned no results"), TRUE)
           [] OTHER ->
                Outcome(TRUE, mark_step_completed(st, step, "vl_text", d),
                        TRUE)

HasBaseText_Always(state) == TRUE

(* base_text = ocr_text or vision_text *)
HasBaseText(state) ==
    \/ state.results["ocr_data"] = "ocr_text"
    \/ state.results["vl_model_data"] = "vl_text"

(* the mapping text_agent.process_text returns *)
TextProcessing(r) ==
    CASE r = "ok" -> "tp_needs_translation"
      [] r = "ok_no_text" -> "tp_flag_without_text"
      [] OTHER -> "tp_final"

process_text_agent_step(i, state, r, d, skip_if_completed) ==
    LET step == "text_agent_processing" IN
    IF AlreadyCompleted(state, step, skip_if_completed)
    THEN Outcome(TRUE, mark_step_skipped(state, step, "Already completed"),
                 FALSE)
    ELSE IF ~IsState(state) THEN KeyErrorOutcome(state)
    ELSE LET st == mark_step_running(state, step) IN
         IF ~HasBaseText(st)
         THEN Outcome(TRUE, mark_step_skipped(st, step, "No text available"),
                      FALSE)
         ELSE CASE r = "error" ->
                     Outcome(FALSE,
                             mark_step_failed(st, step, EngineError(i, step)),
                             TRUE)
                [] r = "empty" ->
                     Outcome(FALSE,
                             mark_step_failed(st, step,
                                 "Text agent returned no results"), TRUE)
                [] OTHER ->
                     Outcome(TRUE,
                             mark_step_completed(st, step,
                                 TextProcessing(r), d),
                             TRUE)

(* text_processing.get('needTranslation', False) *)
need_translation(text_processing) ==
    text_processing \in { "tp_needs_translation", "tp_flag_without_text" }

primary_text_Always(text_processing) == TRUE

(* text_processing.get('primary_text') or                                  *)
(* text_processing.get('corrected_text', '')                               *)
primary_text(text_processing) ==
    text_processing \in { "tp_needs_translation", "tp_final" }

process_translation_step(i, state, r, d, skip_if_completed) ==
    LET step == "translation" IN
    IF AlreadyCompleted(state, step, skip_if_completed)
    THEN Outcome(TRUE, mark_step_skipped(state, step, "Already completed"),
                 FALSE)
    ELSE IF ~IsState(state) THEN KeyErrorOutcome(state)
    ELSE LET st == mark_step_running(state, step)
             text_processing == st.results["text_processing"]
         IN
         IF text_processing = NoData
         THEN Outcome(TRUE,
                      mark_step_skipped(st, step, "No text processing data"),
                      FALSE)
         ELSE IF ~need_translation(text_processing)
                 \/ ~primary_text(text_processing)
         THEN Outcome(TRUE,
                      mark_step_skipped(st, step, "Translation not needed"),
                      FALSE)
         ELSE CASE r = "error" ->
                     Outcome(FALSE,
                             mark_step_failed(st, step, EngineError(i, step)),
                             TRUE)
                [] r = "empty" ->
                     Outcome(FALSE,
                             mark_step_failed(st, step,
                                 "Translator returned no results"), TRUE)
                [] OTHER ->
                     Outcome(TRUE,
                             mark_step_completed(st, step, "translated", d),
                             TRUE)

(* "if False:" - the metadata step never skips. *)
MetadataSkipCheck_AsOtherSteps(state, step, skip_if_completed) ==
    AlreadyCompleted(state, step, skip_if_completed)

(* `if False:  # Never skip metadata combination - always regenerate` *)
MetadataSkipCheck(state, step, skip_if_completed) == FALSE

process_metadata_combination_step(i, state, r, d, skip_if_completed) ==
    LET step == "metadata_combination" IN
    IF MetadataSkipCheck(state, step, skip_if_completed)
    THEN Outcome(TRUE, mark_step_skipped(state, step, "Already completed"),
                 FALSE)
    ELSE IF ~IsState(state) THEN KeyErrorOutcome(state)
    ELSE LET st == mark_step_running(state, step) IN
         IF r = "error"
         THEN Outcome(FALSE, mark_step_failed(st, step, EngineError(i, step)),
                      TRUE)
         ELSE Outcome(TRUE,
                      mark_step_completed(st, step,
                          IF r = "ok" THEN "combined" ELSE NoData, d),
                      TRUE)

ExecuteStep(n, i, state, r, d, skip_if_completed) ==
    CASE n = 1 -> process_ocr_step(i, state, r, d, skip_if_completed)
      [] n = 2 -> process_image_agent_step(i, state, r, d, skip_if_completed)
      [] n = 3 -> process_text_agent_step(i, state, r, d, skip_if_completed)
      [] n = 4 -> process_translation_step(i, state, r, d, skip_if_completed)
      [] OTHER -> process_metadata_combination_step(i, state, r, d,
                                                     skip_if_completed)

(* ------------------------- configuration ------------------------------- *)
(* A step runs when its enable flag is set and its engine handle is        *)
(* present; metadata_combination has no switch.  enable_translation is     *)
(* off by default.                                                         *)
AllEnabled == [ n \in StepIdx |-> TRUE ]

Configs ==
    { AllEnabled,
      [ AllEnabled EXCEPT ![2] = FALSE ],
      [ AllEnabled EXCEPT ![4] = FALSE ] }

LastStep == Len(pipeline_steps)
Finished == LastStep + 1

RECURSIVE NextEnabled(_, _)
NextEnabled(enabled, n) ==
    IF n >= LastStep THEN n
    ELSE IF enabled[n] THEN n
    ELSE NextEnabled(enabled, n + 1)

(* --------------------------- State Store ------------------------------- *)
(* The state file of an image is <stem>.yml in the image's folder: image   *)
(* files that differ only in their extension share it.                     *)
VARIABLE stem     \* per item: the stem of its file name

_get_yaml_path(i) == stem[i]

(* load_state: None when the file is missing and when reading it raises.   *)
load_state(doc, readFails) ==
    IF doc = Absent \/ readFails THEN Absent ELSE doc

LoadOrCreate_AlwaysNew(doc, readFails) == create_initial_state

LoadOrCreate(doc, readFails) ==
    IF load_state(doc, readFails) = Absent
    THEN create_initial_state
    ELSE load_state(doc, readFails)

(* save_state: writes the document, or logs the error and returns False.   *)
save_state(st, i, state, writeFails) ==
    IF writeFails THEN st ELSE [ st EXCEPT ![_get_yaml_path(i)] = state ]

(* ------------------------------ state ---------------------------------- *)
VARIABLES
    image_files,  \* the batch: the items handed to the orchestrator
    maxRuns,      \* how many batch runs the behaviour may start
    budget,       \* how many deviations the behaviour may contain
    enabled,      \* per step: enable flag and engine handle present
    num_threads,  \* size of the worker pool
    store,        \* the .yml document of each item
    run,          \* number of batch runs started
    mode,         \* "idle", "item" (process_images_batch), "step" (..._by_steps)
    phase,        \* step-major: the step being processed for all items
    pc,           \* per item: "queued", "ready", "call", "done"
    k,            \* item-major: per item, the step its worker is at
    mem,          \* per item: the state dict held by its worker
    success,      \* item-major: per item, the accumulated success flag
    resp,         \* engine answers, fixed per (item, step) once given
    stats,        \* processing_stats of the running orchestrator
    report,       \* the report returned by the last finished run
    invoked,      \* per item and step: executor calls begun in this run
    returned,     \* per item and step: executor calls ended in this run
    called,       \* per item and step: engine calls made in this run
    escaped,      \* an exception reached the caller of the batch run
    runStart,     \* the store as it was when the run began
    faults,       \* State Store read/write failures so far
    runFaults,    \* State Store failures in this run
    writers,      \* per state file: the workers that wrote it in this phase
    storeFailed,  \* items whose state file failed to be read or written in this run
    pstate,       \* a pipeline state handed to the executors one call at a time
    inExecutor,   \* the step whose executor is inside its try block on pstate, or 0
    afterReset,   \* per step: how far pstate's step is past a reset_failed_step
    pass,         \* how many times pstate has been taken through the steps
    nextCall,     \* the step whose executor is called next in this pass
    legacyRun,    \* OCR-only processor, per item: where process_single_image is
    legacyFile,   \* OCR-only processor, per item: the .yml result document
    legacyOut,    \* OCR-only processor, per item: what process_single_image gave
    processing_stats, \* the processor's processing_stats dictionary
    stats_lock,   \* threading.Lock of the processor: 0, or the thread holding it
    updater,      \* per worker thread: where its _update_stats call is
    updates,      \* the _update_stats calls that have returned
    perf_stats,   \* PerformanceStatsManager.stats: request type -> its statistics
    lock,         \* PerformanceStatsManager.lock: 0, or the thread holding it
    tracker,      \* per thread: where its track_request call is
    tracked,      \* track_request calls returned since the last reset_stats
    single        \* SingleImageProcessor: the process_image call and its locals

config == << image_files, maxRuns, budget, enabled, num_threads, stem >>

batch == << config, store, run, mode, phase, pc, k, mem, success, resp, stats,
            report, invoked, returned, called, escaped, runStart, faults,
            runFaults, writers, storeFailed >>

ops == << pstate, inExecutor, afterReset, pass, nextCall >>

legacy == << legacyRun, legacyFile, legacyOut >>

(* A worker thread that is not inside _update_stats. *)
IdleUpdater ==
    [ pc |-> "idle", image |-> 0, ok |-> TRUE, error |-> << >>,
      processed_images |-> 0 ]

counters == << processing_stats, stats_lock, updater, updates >>

(* A thread that is not inside track_request. *)
IdleTracker ==
    [ pc |-> "idle", request_type |-> "", model_name |-> "",
      total_requests |-> 0 ]

RequestTypes == { "image", "text" }

ModelNames == { "qwen", "llava" }

(* ModelStats(model_name=...), and a model name that is not in the dict *)
ModelStats == [ present |-> TRUE, request_count |-> 0 ]

NoModelStats == [ present |-> FALSE, request_count |-> 0 ]

(* RequestTypeStats(request_type=...), and a type that is not in the dict *)
RequestTypeStats ==
    [ present |-> TRUE, total_requests |-> 0,
      models |-> [ m \in ModelNames |-> NoModelStats ] ]

NoRequestTypeStats ==
    [ present |-> FALSE, total_requests |-> 0,
      models |-> [ m \in ModelNames |-> NoModelStats ] ]

tracking == << perf_stats, lock, tracker, tracked >>

side == << legacy, counters, tracking, single >>

(* process_single_image has not returned. *)
NotReturned == [ pending |-> TRUE ]

vars == << batch, ops, side >>

(* The state file of item i, now and when the run began. *)
Record(i) == store[_get_yaml_path(i)]
RecordAtStart(i) == runStart[_get_yaml_path(i)]

NoWriters == [ p \in Items |-> { } ]

(* load_state or save_state has failed for item i (or not). *)
StoreFailure(i, fails) ==
    IF fails THEN storeFailed \cup { i } ELSE storeFailed

(* The worker of item i has called save_state. *)
Written(i, writeFails) ==
    IF writeFails THEN writers
    ELSE [ writers EXCEPT ![_get_yaml_path(i)] = @ \cup { i } ]

NoReport == [ none |-> TRUE ]
Unset == "unset"

Deviations ==
    faults + Cardinality({ x \in Items \X StepIdx :
                             resp[x[1]][x[2]] \notin { Unset, "ok" } })

(* The answers the engine of step n may give item i: the one it gave       *)
(* before, or any.                                                         *)
Answers(i, n) ==
    IF resp[i][n] # Unset THEN { resp[i][n] }
    ELSE Responses(pipeline_steps[n])

(* An answer other than "ok" and a State Store failure each count as one   *)
(* deviation; a behaviour has at most budget of them.                      *)
Cost(i, n, r, answerUsed, storeFailures) ==
    ( IF answerUsed /\ resp[i][n] = Unset /\ r # "ok" THEN 1 ELSE 0 )
    + storeFailures

Affordable(cost) == Deviations + cost <= budget

Bit(b) == IF b THEN 1 ELSE 0

ZeroCalls == [ i \in Items |-> [ n \in StepIdx |-> 0 ] ]

EmptyItemStats ==
    [ total_images |-> 0, processed_images |-> 0, failed_images |-> 0,
      processing_times |-> << >>, errors |-> << >> ]

NewStepStats(name) ==
    [ name |-> name, total |-> Cardinality(image_files), successful |-> 0, failed |-> 0,
      skipped |-> 0, errors |-> << >> ]

EmptyStepStats ==
    [ total_images |-> 0, steps_completed |-> << >>, step_stats |-> << >>,
      errors |-> << >>, step |-> NewStepStats("") ]

FreshStore == [ i \in Items |-> Absent ]
LegacyStore == [ i \in Items |-> IF i = 1 THEN LegacyDoc ELSE Absent ]

OwnStems == [ i \in Items |-> i ]
SameStem == [ i \in Items |-> 1 ]

(* What process_image returns from its except branch. *)
ErrorRecord == [ status |-> "failed" ]

(* No process_image call has been made. *)
IdleRequest ==
    [ pc |-> "idle", image |-> 0, requests |-> 0,
      flags |-> [ n \in 1..4 |-> FALSE ],
      state |-> Absent,
      ocr_data |-> NoData, vl_model_data |-> NoData,
      text_processing |-> NoData, translation_result |-> NoData,
      invoked |-> { }, aborted |-> 0, result |-> NotReturned ]

InitWith(batches, runs, deviations, configs, threads, stores, stems) ==
    /\ stem \in stems
    /\ writers = NoWriters
    /\ storeFailed = { }
    /\ image_files \in batches
    /\ maxRuns = runs
    /\ budget = deviations
    /\ enabled \in configs
    /\ num_threads \in threads
    /\ store \in stores
    /\ faults = 0
    /\ run = 0
    /\ mode = "idle"
    /\ phase = 0
    /\ pc = [ i \in Items |-> "done" ]
    /\ k = [ i \in Items |-> 0 ]
    /\ mem = [ i \in Items |-> Absent ]
    /\ success = [ i \in Items |-> TRUE ]
    /\ resp = [ i \in Items |-> [ n \in StepIdx |-> Unset ] ]
    /\ stats = EmptyItemStats
    /\ report = NoReport
    /\ invoked = ZeroCalls
    /\ returned = ZeroCalls
    /\ called = ZeroCalls
    /\ escaped = FALSE
    /\ runStart = store
    /\ runFaults = 0
    /\ pstate = create_initial_state
    /\ inExecutor = 0
    /\ afterReset = [ n \in StepIdx |-> "no" ]
    /\ pass = 1
    /\ nextCall = 1
    /\ legacyRun = [ i \in Items |-> [ pc |-> "idle", raised |-> "none" ] ]
    /\ legacyFile = [ i \in Items |-> [ absent |-> TRUE ] ]
    /\ legacyOut = [ i \in Items |-> NotReturned ]
    /\ processing_stats = EmptyItemStats
    /\ stats_lock = 0
    /\ updater = [ t \in 1..MaxThreads |-> IdleUpdater ]
    /\ updates = [ calls |-> 0, failed |-> 0, with_error |-> 0 ]
    /\ perf_stats = [ rt \in RequestTypes |-> NoRequestTypeStats ]
    /\ lock = 0
    /\ tracker = [ t \in 1..MaxThreads |-> IdleTracker ]
    /\ tracked = [ rt \in RequestTypes |-> [ m \in ModelNames |-> 0 ] ]
    /\ single = IdleRequest

(* One batch run of either orchestrator over a folder that holds no state  *)
(* yet, or a document of the OCR-only processor for item 1.                *)
Init ==
    InitWith({ Items, { } }, 1, MaxDeviations, Configs, 1..MaxThreads,
             { FreshStore, LegacyStore }, { OwnStems })

(* Successive runs over the same folder, each by either orchestrator, any  *)
(* of them cut short.                                                      *)
ResumeInit ==
    InitWith({ Items }, MaxRuns, MaxResumeDeviations, { AllEnabled },
             { MaxThreads }, { FreshStore }, { OwnStems })

(* An exception that leaves an executor is caught by the except branch of *)
(* the worker function (process_single_image, _process_<step>_for_image); *)
(* one that left the worker would be raised again by future.result()      *)
(* inside the try of the as_completed loop and caught there.              *)
CatchesException_None(level) == FALSE

CatchesException(level) == level \in { "worker", "collector" }

ReachesCaller(out) ==
    /\ out.raised
    /\ ~CatchesException("worker")
    /\ ~CatchesException("collector")

(* ------------------ item-major: pipeline.ImageProcessor ---------------- *)
Active == { i \in image_files : pc[i] \in { "ready", "call" } }

PoolAdmits_Unbounded(i) == pc[i] = "queued"

(* ThreadPoolExecutor: a queued task starts when a worker is free, in      *)
(* submission order.                                                       *)
PoolAdmits(i) ==
    /\ pc[i] = "queued"
    /\ Cardinality(Active) < num_threads
    /\ \A j \in image_files : j < i => pc[j] # "queued"

RECURSIVE FailedStepErrors(_, _)
FailedStepErrors(state, n) ==
    IF n = 0 THEN << >>
    ELSE FailedStepErrors(state, n - 1) \o
         ( IF state.steps[pipeline_steps[n]].status = "failed"
           THEN << [ step |-> pipeline_steps[n],
                     error |-> state.steps[pipeline_steps[n]].error ] >>
           ELSE << >> )

(* combined_metadata['error']: the "step: error" texts of the failed steps *)
(* joined by " | "; kept here as the sequence of its parts.                *)
ItemError(state) ==
    IF FailedStepErrors(state, LastStep) # << >>
    THEN FailedStepErrors(state, LastStep)
    ELSE << [ step |-> "", error |-> "One or more steps failed" ] >>

(* str(e) of the KeyError, as create_minimal_metadata records it. *)
ExceptionError == << [ step |-> "", error |-> "'pipeline_status'" ] >>

_update_stats(st, image, ok, error) ==
    [ st EXCEPT !.processed_images = @ + 1,
                !.processing_times = Append(@, 1),
                !.failed_images = IF ok THEN @ ELSE @ + 1,
                !.errors = IF ok \/ error = << >> THEN @
                           ELSE Append(@, [ image |-> image, error |-> error ]) ]

(* A division by zero raises ZeroDivisionError. *)
ZeroDivisionError == [ exception |-> "ZeroDivisionError" ]

(* max(stats['processed_images'], 1) *)
RateDivisor(st) ==
    IF st.processed_images > 1 THEN st.processed_images ELSE 1

(* ImageProcessor.get_processing_report *)
ItemReport(st) ==
    IF RateDivisor(st) = 0 THEN ZeroDivisionError
    ELSE [ kind |-> "item",
           total_images |-> st.total_images,
           processed_images |-> st.processed_images,
           successful_images |-> st.processed_images - st.failed_images,
           failed_images |-> st.failed_images,
           success_rate |->
               ((st.processed_images - st.failed_images) * 100)
                   \div RateDivisor(st),
           errors |-> st.errors ]

(* --------------- step-major: BatchProcessorBySteps --------------------- *)
StatsKey(n) ==
    CASE n = 1 -> "ocr"
      [] n = 2 -> "image_agent"
      [] n = 3 -> "text_agent"
      [] n = 4 -> "translation"
      [] OTHER -> "metadata"

(* The as_completed loop of _process_step_for_images for one result        *)
(* (success, state, proc_time); state is {} when the worker caught an      *)
(* exception.                                                              *)
CollectStep_NoSkipped(ss, image, ok, state) ==
    IF ok THEN [ ss EXCEPT !.successful = @ + 1 ]
    ELSE [ ss EXCEPT !.failed = @ + 1 ]

CollectStep(ss, image, ok, state) ==
    IF ok
    THEN IF IsState(state) /\ state.steps[ss.name].status = "skipped"
         THEN [ ss EXCEPT !.skipped = @ + 1 ]
         ELSE [ ss EXCEPT !.successful = @ + 1 ]
    ELSE [ ss EXCEPT
             !.failed = @ + 1,
             !.errors = Append(@,
                 [ image |-> image,
                   error |-> IF IsState(state)
                             THEN state.steps[ss.name].error
                             ELSE "Unknown error" ]) ]

StepDetail(key, ss) ==
    [ step |-> key, total |-> ss.total, successful |-> ss.successful,
      failed |-> ss.failed, skipped |-> ss.skipped ]

(* BatchProcessorBySteps.get_processing_report: 'errors' is the            *)
(* orchestrator's own list, which no step ever appends to.                 *)
StepReport(st) ==
    [ kind |-> "step",
      total_images |-> st.total_images,
      total_steps_completed |-> Len(st.steps_completed),
      steps |-> st.steps_completed,
      step_details |-> [ n \in DOMAIN st.step_stats |->
                           StepDetail(st.steps_completed[n], st.step_stats[n]) ],
      errors |-> st.errors ]

(* process_single_image runs the enabled steps in this order, all of them *)
(* whatever the earlier ones returned; FirstStep is where it starts.       *)
FirstStep == NextEnabled(enabled, 1)

StepAfter_TextFirst(n) ==
    CASE n = 1 -> 3
      [] n = 3 -> 2
      [] n = 2 -> 4
      [] n = LastStep -> Finished
      [] OTHER -> n + 1

StepAfter(n) ==
    IF n = LastStep THEN Finished ELSE NextEnabled(enabled, n + 1)

(* ---------------------------- the runs --------------------------------- *)
(* A new orchestrator is constructed and handed the batch.  An empty       *)
(* batch returns the report of the untouched statistics at once.           *)
StartRun(m) ==
    /\ mode = "idle"
    /\ run < maxRuns
    /\ run' = run + 1
    /\ k' = [ i \in Items |-> 0 ]
    /\ mem' = [ i \in Items |-> Absent ]
    /\ success' = [ i \in Items |-> TRUE ]
    /\ invoked' = ZeroCalls
    /\ returned' = ZeroCalls
    /\ called' = ZeroCalls
    /\ runStart' = store
    /\ runFaults' = 0
    /\ IF image_files = { }
       THEN /\ mode' = "idle"
            /\ phase' = 0
            /\ pc' = pc
            /\ stats' = IF m = "item" THEN EmptyItemStats ELSE EmptyStepStats
            /\ report' = IF m = "item" THEN ItemReport(EmptyItemStats)
                         ELSE StepReport(EmptyStepStats)
            /\ escaped' = (escaped \/ report' = ZeroDivisionError)
       ELSE /\ mode' = m
            /\ phase' = IF m = "step" THEN FirstStep ELSE 0
            /\ pc' = [ i \in Items |->
                         IF i \in image_files THEN "queued" ELSE "done" ]
            /\ stats' =
                 IF m = "item"
                 THEN [ EmptyItemStats EXCEPT
                          !.total_images = Cardinality(image_files) ]
                 ELSE [ EmptyStepStats EXCEPT
                          !.total_images = Cardinality(image_files),
                          !.step = NewStepStats(pipeline_steps[FirstStep]) ]
            /\ report' = NoReport
            /\ escaped' = escaped
    /\ writers' = NoWriters
    /\ storeFailed' = { }
    /\ UNCHANGED << config, ops, side, store, resp, faults >>

(* process_single_image begins: load or create the state. *)
IM_Begin(i) ==
    /\ mode = "item"
    /\ PoolAdmits(i)
    /\ \E readFails \in BOOLEAN :
         /\ readFails => Record(i) # Absent /\ Affordable(1)
         /\ mem' = [ mem EXCEPT ![i] = LoadOrCreate(Record(i), readFails) ]
         /\ faults' = faults + Bit(readFails)
         /\ runFaults' = runFaults + Bit(readFails)
         /\ storeFailed' = StoreFailure(i, readFails)
    /\ pc' = [ pc EXCEPT ![i] = "ready" ]
    /\ k' = [ k EXCEPT ![i] = FirstStep ]
    /\ UNCHANGED << writers, config, ops, side, store, run, mode, phase, success, resp, stats,
                    report, invoked, returned, called, escaped, runStart >>

(* The worker invokes the executor of its next enabled step. *)
IM_StartStep(i) ==
    /\ mode = "item"
    /\ pc[i] = "ready"
    /\ k[i] <= LastStep
    /\ pc' = [ pc EXCEPT ![i] = "call" ]
    /\ invoked' = [ invoked EXCEPT ![i][k[i]] = @ + 1 ]
    /\ UNCHANGED << writers, storeFailed, config, ops, side, store, run, mode, phase, k, mem, success, resp,
                    stats, report, returned, called, escaped, runStart,
                    faults, runFaults >>

(* The executor returns; the worker saves the state and moves on.  An      *)
(* exception out of the executor ends process_single_image in its except   *)
(* branch, and the as_completed loop records the item as failed.           *)
IM_FinishStep(i) ==
    /\ mode = "item"
    /\ pc[i] = "call"
    /\ \E r \in Answers(i, k[i]), d \in Durations, writeFails \in BOOLEAN :
         LET out == ExecuteStep(k[i], i, mem[i], r, d, TRUE) IN
         /\ writeFails => ~out.raised
         /\ Affordable(Cost(i, k[i], r, out.used, Bit(writeFails)))
         /\ resp' = IF out.used THEN [ resp EXCEPT ![i][k[i]] = r ] ELSE resp
         /\ called' = IF out.called THEN [ called EXCEPT ![i][k[i]] = @ + 1 ]
                      ELSE called
         /\ escaped' = (escaped \/ ReachesCaller(out))
         /\ IF out.raised
            THEN /\ pc' = [ pc EXCEPT ![i] = "done" ]
                 /\ stats' = _update_stats(stats, i, FALSE, ExceptionError)
                 /\ UNCHANGED << mem, store, success, k, faults, runFaults,
                                 writers, storeFailed >>
            ELSE /\ mem' = [ mem EXCEPT ![i] = out.state ]
                 /\ store' = save_state(store, i, out.state, writeFails)
                 /\ writers' = Written(i, writeFails)
                 /\ storeFailed' = StoreFailure(i, writeFails)
                 /\ success' = [ success EXCEPT ![i] = @ /\ out.success ]
                 /\ k' = [ k EXCEPT ![i] = StepAfter(k[i]) ]
                 /\ pc' = [ pc EXCEPT ![i] = "ready" ]
                 /\ faults' = faults + Bit(writeFails)
                 /\ runFaults' = runFaults + Bit(writeFails)
                 /\ UNCHANGED stats
    /\ returned' = [ returned EXCEPT ![i][k[i]] = @ + 1 ]
    /\ UNCHANGED << config, ops, side, run, mode, phase, report, invoked, runStart >>

(* After the last step: mark_pipeline_completed, save, return the result;  *)
(* the as_completed loop then updates the statistics.                      *)
IM_Complete(i) ==
    /\ mode = "item"
    /\ pc[i] = "ready"
    /\ k[i] = Finished
    /\ \E writeFails \in BOOLEAN :
         LET st == mark_pipeline_completed(mem[i]) IN
         /\ writeFails => Affordable(1)
         /\ mem' = [ mem EXCEPT ![i] = st ]
         /\ store' = save_state(store, i, st, writeFails)
         /\ writers' = Written(i, writeFails)
         /\ storeFailed' = StoreFailure(i, writeFails)
         /\ faults' = faults + Bit(writeFails)
         /\ runFaults' = runFaults + Bit(writeFails)
         /\ stats' = _update_stats(stats, i, success[i],
                         IF success[i] THEN << >> ELSE ItemError(st))
    /\ pc' = [ pc EXCEPT ![i] = "done" ]
    /\ UNCHANGED << config, ops, side, run, mode, phase, k, success, resp, report,
                    invoked, returned, called, escaped, runStart >>

(* The pool has drained: get_processing_report. *)
IM_Report ==
    /\ mode = "item"
    /\ \A i \in image_files : pc[i] = "done"
    /\ report' = ItemReport(stats)
    /\ escaped' = (escaped \/ report' = ZeroDivisionError)
    /\ mode' = "idle"
    /\ UNCHANGED << writers, storeFailed, config, ops, side, store, run, phase, pc, k, mem, success, resp,
                    stats, invoked, returned, called, runStart, faults,
                    runFaults >>

(* A pool worker takes the item's task for the current step. *)
SM_StartStep(i) ==
    /\ mode = "step"
    /\ PoolAdmits(i)
    /\ pc' = [ pc EXCEPT ![i] = "call" ]
    /\ k' = [ k EXCEPT ![i] = phase ]
    /\ invoked' = [ invoked EXCEPT ![i][phase] = @ + 1 ]
    /\ UNCHANGED << writers, storeFailed, config, ops, side, store, run, mode, phase, mem, success, resp,
                    stats, report, returned, called, escaped, runStart,
                    faults, runFaults >>

(* _process_<step>_for_image: load or create, run the executor, (after the *)
(* metadata step: mark_pipeline_completed,) save, return; the as_completed *)
(* loop counts the result.                                                 *)
SM_FinishStep(i) ==
    /\ mode = "step"
    /\ pc[i] = "call"
    /\ \E r \in Answers(i, k[i]), d \in Durations,
          readFails \in BOOLEAN, writeFails \in BOOLEAN :
         LET loaded == LoadOrCreate(Record(i), readFails)
             out == ExecuteStep(k[i], i, loaded, r, d, TRUE)
             st == IF k[i] = LastStep
                   THEN mark_pipeline_completed(out.state)
                   ELSE out.state
         IN
         /\ readFails => Record(i) # Absent
         /\ writeFails => ~out.raised
         /\ Affordable(Cost(i, k[i], r, out.used,
                            Bit(readFails) + Bit(writeFails)))
         /\ resp' = IF out.used THEN [ resp EXCEPT ![i][k[i]] = r ] ELSE resp
         /\ called' = IF out.called THEN [ called EXCEPT ![i][k[i]] = @ + 1 ]
                      ELSE called
         /\ faults' = faults + Bit(readFails) + Bit(writeFails)
         /\ runFaults' = runFaults + Bit(readFails) + Bit(writeFails)
         /\ storeFailed' = StoreFailure(i, readFails \/ writeFails)
         /\ escaped' = (escaped \/ ReachesCaller(out))
         /\ IF out.raised
            THEN /\ stats' = [ stats EXCEPT
                               !.step = CollectStep(@, i, FALSE, Absent) ]
                 /\ UNCHANGED << store, mem, writers >>
            ELSE /\ store' = save_state(store, i, st, writeFails)
                 /\ writers' = Written(i, writeFails)
                 /\ mem' = [ mem EXCEPT ![i] = st ]
                 /\ stats' = [ stats EXCEPT
                               !.step = CollectStep(@, i, out.success, st) ]
    /\ pc' = [ pc EXCEPT ![i] = "done" ]
    /\ returned' = [ returned EXCEPT ![i][k[i]] = @ + 1 ]
    /\ UNCHANGED << config, ops, side, run, mode, phase, k, success, report, invoked,
                    runStart >>

AdvanceStep ==
    /\ phase' = NextEnabled(enabled, phase + 1)
    /\ stats' = [ stats EXCEPT
                    !.step_stats = Append(@, stats.step),
                    !.steps_completed = Append(@, StatsKey(phase)),
                    !.step = NewStepStats(pipeline_steps[phase']) ]
    /\ pc' = [ i \in Items |-> IF i \in image_files THEN "queued" ELSE "done" ]
    /\ writers' = NoWriters
    /\ UNCHANGED << storeFailed, config, ops, side, store, run, mode, k, mem, success, resp, report,
                    invoked, returned, called, escaped, runStart, faults,
                    runFaults >>

SM_NextStep_NoWait ==
    /\ mode = "step"
    /\ phase < LastStep
    /\ \E i \in image_files : pc[i] = "done"
    /\ AdvanceStep

(* The step's pool has drained (the with-block of the ThreadPoolExecutor   *)
(* is left): record its statistics and go on to the next enabled step.     *)
SM_NextStep ==
    /\ mode = "step"
    /\ phase < LastStep
    /\ \A i \in image_files : pc[i] = "done"
    /\ AdvanceStep

(* After the metadata step: get_processing_report. *)
SM_Report ==
    /\ mode = "step"
    /\ phase = LastStep
    /\ \A i \in image_files : pc[i] = "done"
    /\ LET final == [ stats EXCEPT
                        !.step_stats = Append(@, stats.step),
                        !.steps_completed = Append(@, StatsKey(phase)) ]
       IN  /\ stats' = final
           /\ report' = StepReport(final)
    /\ mode' = "idle"
    /\ phase' = 0
    /\ UNCHANGED << writers, storeFailed, config, ops, side, store, run, pc, k, mem, success, resp, invoked,
                    returned, called, escaped, runStart, faults, runFaults >>

(* The process stops in the middle of a run; only the store survives. *)
(* The worker of item i is in, or on its way to, a save_state call. *)
Saving(i) ==
    \/ /\ mode = "item"
       /\ IsState(mem[i])
       /\ pc[i] = "call" \/ (pc[i] = "ready" /\ k[i] = Finished)
    \/ /\ mode = "step"
       /\ pc[i] = "call"
       /\ Record(i) = Absent \/ IsState(Record(i))

(* The process is killed.  A worker that was inside save_state leaves its  *)
(* state file half-written.                                                *)
Crash ==
    /\ mode # "idle"
    /\ \E torn \in SUBSET { i \in image_files : Saving(i) } :
         /\ Cardinality(torn) <= 1
         /\ Affordable(Cardinality(torn))
         /\ store' = [ p \in Items |->
                         IF \E i \in torn : _get_yaml_path(i) = p
                         THEN HalfWritten ELSE store[p] ]
         /\ faults' = faults + Cardinality(torn)
         /\ runFaults' = runFaults + Cardinality(torn)
    /\ mode' = "idle"
    /\ phase' = 0
    /\ pc' = [ i \in Items |-> "done" ]
    /\ k' = [ i \in Items |-> 0 ]
    /\ mem' = [ i \in Items |-> Absent ]
    /\ stats' = EmptyItemStats
    /\ report' = NoReport
    /\ UNCHANGED << writers, storeFailed, config, ops, side, run, success, resp, invoked, returned,
                    called, escaped, runStart >>

Next ==
    \/ \E m \in { "item", "step" } : StartRun(m)
    \/ \E i \in image_files : IM_Begin(i)
    \/ \E i \in image_files : IM_StartStep(i)
    \/ \E i \in image_files : IM_FinishStep(i)
    \/ \E i \in image_files : IM_Complete(i)
    \/ IM_Report
    \/ \E i \in image_files : SM_StartStep(i)
    \/ \E i \in image_files : SM_FinishStep(i)
    \/ SM_NextStep
    \/ SM_Report
    \/ Crash

Spec == Init /\ [][Next]_vars

Resume == ResumeInit /\ [][Next]_vars

(* A folder holding two images of one stem (photo.jpg and photo.png):     *)
(* find_image_files lists every file whose suffix is a supported format.   *)
SharedStemInit ==
    InitWith({ Items }, 1, MaxResumeDeviations, { AllEnabled }, { MaxThreads },
             { FreshStore }, { SameStem })

SharedStem == SharedStemInit /\ [][Next]_vars

(* --------- one pipeline state under executor calls and resets --------- *)
(* The executor of step n, called on state, gets past its skip check. *)
EntersTry(n, state, skip_if_completed) ==
    IF n = LastStep
    THEN ~MetadataSkipCheck(state, pipeline_steps[n], skip_if_completed)
    ELSE ~AlreadyCompleted(state, pipeline_steps[n], skip_if_completed)

(* An executor is called and marks its step running. *)
ExecutorEnters(n) ==
    /\ inExecutor = 0
    /\ nextCall = n
    /\ \E skip_if_completed \in BOOLEAN :
         EntersTry(n, pstate, skip_if_completed)
    /\ pstate' = mark_step_running(pstate, pipeline_steps[n])
    /\ inExecutor' = n
    /\ afterReset' = [ afterReset EXCEPT
                         ![n] = IF @ = "reset" THEN "rerunning" ELSE @ ]
    /\ UNCHANGED << pass, nextCall, batch, side >>

(* An executor is called on a completed step with skip_if_completed set.   *)
ExecutorSkips(n) ==
    /\ inExecutor = 0
    /\ nextCall = n
    /\ ~EntersTry(n, pstate, TRUE)
    /\ pstate' = ExecuteStep(n, 1, pstate, "ok", 1, TRUE).state
    /\ nextCall' = n + 1
    /\ UNCHANGED << inExecutor, afterReset, pass, batch, side >>

(* The executor that is inside its try block records its outcome and       *)
(* returns.                                                                *)
ExecutorReturns ==
    /\ inExecutor # 0
    /\ \E r \in Responses(pipeline_steps[inExecutor]), d \in Durations :
         pstate' = ExecuteStep(inExecutor, 1, pstate, r, d, FALSE).state
    /\ inExecutor' = 0
    /\ nextCall' = inExecutor + 1
    /\ afterReset' = [ afterReset EXCEPT
                         ![inExecutor] = IF @ = "rerunning" THEN "rerun" ELSE @ ]
    /\ UNCHANGED << pass, batch, side >>

(* reset_failed_step is called on a failed step while no executor runs. *)
ResetStep(n) ==
    /\ inExecutor = 0
    /\ is_step_failed(pstate, pipeline_steps[n])
    /\ pstate' = reset_failed_step(pstate, pipeline_steps[n])
    /\ afterReset' = [ afterReset EXCEPT ![n] = "reset" ]
    /\ UNCHANGED << inExecutor, pass, nextCall, batch, side >>

(* The state is taken through the steps once more. *)
NextPass ==
    /\ nextCall = Finished
    /\ pass < MaxPasses
    /\ pass' = pass + 1
    /\ nextCall' = 1
    /\ UNCHANGED << pstate, inExecutor, afterReset, batch, side >>

RerunNext ==
    \/ \E n \in StepIdx : ExecutorEnters(n)
    \/ \E n \in StepIdx : ExecutorSkips(n)
    \/ ExecutorReturns
    \/ \E n \in StepIdx : ResetStep(n)
    \/ NextPass

RerunInit ==
    InitWith({ Items }, 1, 0, { AllEnabled }, { 1 }, { FreshStore },
             { OwnStems })

Rerun == RerunInit /\ [][RerunNext]_vars

(* ------------- the OCR-only ImageProcessor (image_processor.py) -------- *)
(* What the OCR engine's extract_text and format_extracted_text may give:  *)
(* a value, an exception, or (format) something that is no mapping, which  *)
(* makes the ** unpacking raise TypeError.                                 *)
ExtractAnswers == { "ok", "empty", "error" }
FormatAnswers == { "ok", "no_mapping", "error" }

(* open(output_path, 'w') or yaml.dump may raise. *)
WriteOutcomes == { "ok", "open_fails", "dump_fails" }

ResultDocument == [ legacy |-> TRUE ]

(* _save_result_to_yaml logs the exception and raises it again. *)
SaveReraises_Never == FALSE

SaveReraises == TRUE

(* The tuple process_single_image returns. *)
LegacyResult(i, ok, data) ==
    [ image_path |-> i, success |-> ok, result_data |-> data ]

(* process_single_image wraps its whole body in try ... except Exception  *)
(* and returns the failure tuple from the except branch.                   *)
LegacyCatches == TRUE

LegacyFailure(i, stage) ==
    IF LegacyCatches
    THEN LegacyResult(i, FALSE, [ error |-> "error in " \o stage ])
    ELSE [ exception |-> stage ]

(* process_single_image is called for an item (by a pool worker of         *)
(* process_images_batch or directly) and calls extract_text.               *)
LG_Extract(i) ==
    /\ legacyRun[i].pc = "idle"
    /\ legacyOut[i] = NotReturned
    /\ \E r \in ExtractAnswers :
         IF r = "error"
         THEN /\ legacyRun' = [ legacyRun EXCEPT
                                  ![i] = [ pc |-> "returned",
                                           raised |-> "extract" ] ]
              /\ legacyOut' = [ legacyOut EXCEPT
                                  ![i] = LegacyFailure(i, "extract") ]
         ELSE /\ legacyRun' = [ legacyRun EXCEPT ![i].pc = "extracted" ]
              /\ legacyOut' = legacyOut
    /\ UNCHANGED << legacyFile, batch, ops, single, counters, tracking >>

(* format_extracted_text and the building of result_data. *)
LG_Format(i) ==
    /\ legacyRun[i].pc = "extracted"
    /\ \E r \in FormatAnswers :
         IF r = "ok"
         THEN /\ legacyRun' = [ legacyRun EXCEPT ![i].pc = "formatted" ]
              /\ legacyOut' = legacyOut
         ELSE /\ legacyRun' = [ legacyRun EXCEPT
                                  ![i] = [ pc |-> "returned",
                                           raised |-> "format" ] ]
              /\ legacyOut' = [ legacyOut EXCEPT
                                  ![i] = LegacyFailure(i, "format") ]
    /\ UNCHANGED << legacyFile, batch, ops, single, counters, tracking >>

(* _save_result_to_yaml, then the return. *)
LG_Save(i) ==
    /\ legacyRun[i].pc = "formatted"
    /\ \E w \in WriteOutcomes :
         /\ legacyFile' = [ legacyFile EXCEPT
                              ![i] = CASE w = "ok" -> ResultDocument
                                       [] w = "dump_fails" -> HalfWritten
                                       [] OTHER -> @ ]
         /\ IF w = "ok" \/ ~SaveReraises
            THEN /\ legacyRun' = [ legacyRun EXCEPT
                                     ![i] = [ pc |-> "returned",
                                              raised |-> IF w = "ok" THEN "none"
                                                         ELSE "write" ] ]
                 /\ legacyOut' = [ legacyOut EXCEPT
                                     ![i] = LegacyResult(i, TRUE, "ocr_result") ]
            ELSE /\ legacyRun' = [ legacyRun EXCEPT
                                     ![i] = [ pc |-> "returned",
                                              raised |-> "write" ] ]
                 /\ legacyOut' = [ legacyOut EXCEPT
                                     ![i] = LegacyFailure(i, "write") ]
    /\ UNCHANGED << batch, ops, single, counters, tracking >>

(* The caller has taken the result; the image may be processed again. *)
LG_Again(i) ==
    /\ legacyRun[i].pc = "returned"
    /\ legacyRun' = [ legacyRun EXCEPT ![i] = [ pc |-> "idle", raised |-> "none" ] ]
    /\ legacyOut' = [ legacyOut EXCEPT ![i] = NotReturned ]
    /\ UNCHANGED << legacyFile, batch, ops, single, counters, tracking >>

LegacyNext ==
    \/ \E i \in Items : LG_Extract(i)
    \/ \E i \in Items : LG_Format(i)
    \/ \E i \in Items : LG_Save(i)
    \/ \E i \in Items : LG_Again(i)

LegacyInit ==
    InitWith({ Items }, 1, 0, { AllEnabled }, { 1 }, { FreshStore },
             { OwnStems })

Legacy == LegacyInit /\ [][LegacyNext]_vars

(* ===================== _update_stats, thread by thread ================== *)
(* The pool's threads each call _update_stats(success, processing_time,    *)
(* error) for the results they collect.  The body runs inside              *)
(* `with self.stats_lock:`; `processed_images += 1` is a read of the       *)
(* dictionary entry followed by a write of the value read plus one.        *)
MaxCalls == 4

Threads == 1..MaxThreads

(* error: None, or the message handed over by the caller. *)
ErrorArguments == { << >>, << [ step |-> "", error |-> "Error message" ] >> }

(* threading.Lock: acquire blocks while another thread holds the lock. *)
LockFree_Always == TRUE

LockFree == stats_lock = 0

(* the call is made and waits at `with self.stats_lock:` *)
US_Call(t) ==
    /\ updater[t].pc = "idle"
    /\ updates.calls
         + Cardinality({ u \in Threads : updater[u].pc # "idle" }) < MaxCalls
    /\ \E i \in Items, ok \in BOOLEAN, error \in ErrorArguments :
         updater' = [ updater EXCEPT
                        ![t] = [ pc |-> "waiting", image |-> i, ok |-> ok,
                                 error |-> error, processed_images |-> 0 ] ]
    /\ UNCHANGED << processing_stats, stats_lock, updates, legacy, batch, ops, single, tracking >>

(* __enter__ of the lock, and the read half of processed_images += 1 *)
US_Acquire(t) ==
    /\ updater[t].pc = "waiting"
    /\ LockFree
    /\ stats_lock' = t
    /\ updater' = [ updater EXCEPT
                      ![t].pc = "locked",
                      ![t].processed_images =
                          processing_stats.processed_images ]
    /\ UNCHANGED << processing_stats, updates, legacy, batch, ops, single, tracking >>

(* the write half, the rest of the body, and __exit__ of the lock *)
US_Update(t) ==
    /\ updater[t].pc = "locked"
    /\ processing_stats' =
         _update_stats([ processing_stats EXCEPT
                           !.processed_images = updater[t].processed_images ],
                       updater[t].image, updater[t].ok, updater[t].error)
    /\ stats_lock' = 0
    /\ updates' = [ updates EXCEPT
                      !.calls = @ + 1,
                      !.failed = IF updater[t].ok THEN @ ELSE @ + 1,
                      !.with_error = IF ~updater[t].ok
                                        /\ updater[t].error # << >>
                                     THEN @ + 1 ELSE @ ]
    /\ updater' = [ updater EXCEPT ![t] = IdleUpdater ]
    /\ UNCHANGED << legacy, batch, ops, single, tracking >>

StatsNext ==
    \/ \E t \in Threads : US_Call(t)
    \/ \E t \in Threads : US_Acquire(t)
    \/ \E t \in Threads : US_Update(t)

StatsInit ==
    InitWith({ Items }, 1, 0, { AllEnabled }, { MaxThreads }, { FreshStore },
             { OwnStems })

Stats == StatsInit /\ [][StatsNext]_vars

(* ==================== PerformanceStatsManager, by thread ================ *)
(* track_request, get_stats and reset_stats each run `with self.lock:`.    *)
(* `self.total_requests += 1` is a read of the attribute followed by a     *)
(* write of the value read plus one.                                       *)
MaxTracked == 3

(* threading.Lock: acquire blocks while another thread holds the lock. *)
ManagerLockFree_Always == TRUE

ManagerLockFree == lock = 0

(* RequestTypeStats.add_request, given the total_requests it read, and    *)
(* ModelStats.add_request                                                  *)
add_request(rs, total_requests, model_name) ==
    [ rs EXCEPT
        !.total_requests = total_requests + 1,
        !.models[model_name] =
            [ ( IF @.present THEN @ ELSE ModelStats ) EXCEPT
                !.request_count = @ + 1 ] ]

RECURSIVE SumOver(_, _)
SumOver(f, S) ==
    IF S = {} THEN 0
    ELSE LET x == CHOOSE y \in S : TRUE
         IN  f[x] + SumOver(f, S \ { x })

(* get_stats(request_type)['total_requests'] *)
get_stats_of(st, request_type) ==
    IF ~st[request_type].present THEN 0
    ELSE st[request_type].total_requests

(* get_stats()['total_requests'] *)
get_stats(st) ==
    SumOver([ rt \in RequestTypes |-> st[rt].total_requests ],
            { rt \in RequestTypes : st[rt].present })

(* the call is made and waits at `with self.lock:` *)
PT_Call(t) ==
    /\ tracker[t].pc = "idle"
    /\ SumOver([ rt \in RequestTypes |-> SumOver(tracked[rt], ModelNames) ],
               RequestTypes)
         + Cardinality({ u \in Threads : tracker[u].pc # "idle" }) < MaxTracked
    /\ \E rt \in RequestTypes, m \in ModelNames :
         tracker' = [ tracker EXCEPT
                        ![t] = [ pc |-> "waiting", request_type |-> rt,
                                 model_name |-> m, total_requests |-> 0 ] ]
    /\ UNCHANGED << perf_stats, lock, tracked, legacy, batch, ops, single, counters >>

(* __enter__ of the lock, the new RequestTypeStats if the type is not in   *)
(* the dict, and the read half of total_requests += 1                      *)
PT_Acquire(t) ==
    /\ tracker[t].pc = "waiting"
    /\ ManagerLockFree
    /\ lock' = t
    /\ LET rt == tracker[t].request_type
           created == IF perf_stats[rt].present THEN perf_stats[rt]
                      ELSE RequestTypeStats
       IN  /\ perf_stats' = [ perf_stats EXCEPT ![rt] = created ]
           /\ tracker' = [ tracker EXCEPT
                             ![t].pc = "locked",
                             ![t].total_requests = created.total_requests ]
    /\ UNCHANGED << tracked, legacy, batch, ops, single, counters >>

(* the write half and the rest of add_request, and __exit__ of the lock;   *)
(* an object that clear() has taken out of the dict is updated unseen      *)
PT_Track(t) ==
    /\ tracker[t].pc = "locked"
    /\ LET rt == tracker[t].request_type
       IN  perf_stats' =
             IF perf_stats[rt].present
             THEN [ perf_stats EXCEPT
                      ![rt] = add_request(@, tracker[t].total_requests,
                                          tracker[t].model_name) ]
             ELSE perf_stats
    /\ lock' = 0
    /\ tracked' = [ tracked EXCEPT
                      ![tracker[t].request_type][tracker[t].model_name] =
                          @ + 1 ]
    /\ tracker' = [ tracker EXCEPT ![t] = IdleTracker ]
    /\ UNCHANGED << legacy, batch, ops, single, counters >>

(* reset_stats: self.stats.clear() under the lock *)
reset_stats ==
    /\ ManagerLockFree
    /\ perf_stats' = [ rt \in RequestTypes |-> NoRequestTypeStats ]
    /\ tracked' = [ rt \in RequestTypes |-> [ m \in ModelNames |-> 0 ] ]
    /\ UNCHANGED << lock, tracker, legacy, batch, ops, single, counters >>

TrackingNext ==
    \/ \E t \in Threads : PT_Call(t)
    \/ \E t \in Threads : PT_Acquire(t)
    \/ \E t \in Threads : PT_Track(t)
    \/ reset_stats

TrackingInit ==
    InitWith({ Items }, 1, 0, { AllEnabled }, { MaxThreads }, { FreshStore },
             { OwnStems })

Tracking == TrackingInit /\ [][TrackingNext]_vars

(* ------------- a run under a configuration that omits a step ----------- *)
(* The state file an earlier run with every step enabled has left for      *)
(* item i: every engine answered, the translator with an exception.        *)
RECURSIVE EarlierRun(_, _, _)
EarlierRun(state, i, n) ==
    IF n = Finished THEN mark_pipeline_completed(state)
    ELSE EarlierRun(ExecuteStep(n, i, state,
                                IF n = 4 THEN "error" ELSE "ok", 1, TRUE).state,
                    i, n + 1)

ProcessedStore == [ i \in Items |-> EarlierRun(create_initial_state, i, 1) ]

ReconfiguredInit ==
    InitWith({ Items }, 1, 1, Configs \ { AllEnabled }, { MaxThreads },
             { FreshStore, ProcessedStore }, { OwnStems })

Reconfigured == ReconfiguredInit /\ [][Next]_vars

(* ------------- mark_pipeline_completed over recorded durations --------- *)
(* The steps of one state end one after the other, completed with a        *)
(* duration (rounded to 0.000 at the least) or failed without one, and the *)
(* pipeline is then marked completed.                                      *)
MaxDuration == 2
MaxRequests == 2

StepDurations == 0..MaxDuration

TT_Completed(n) ==
    /\ nextCall = n
    /\ \E d \in StepDurations :
         pstate' = mark_step_completed(
                       mark_step_running(pstate, pipeline_steps[n]),
                       pipeline_steps[n], "payload", d)
    /\ nextCall' = n + 1
    /\ UNCHANGED << inExecutor, afterReset, pass, batch, side >>

TT_Failed(n) ==
    /\ nextCall = n
    /\ pstate' = mark_step_failed(
                     mark_step_running(pstate, pipeline_steps[n]),
                     pipeline_steps[n], EngineError(1, pipeline_steps[n]))
    /\ nextCall' = n + 1
    /\ UNCHANGED << inExecutor, afterReset, pass, batch, side >>

TT_PipelineCompleted ==
    /\ nextCall = Finished
    /\ pstate' = mark_pipeline_completed(pstate)
    /\ nextCall' = Finished + 1
    /\ UNCHANGED << inExecutor, afterReset, pass, batch, side >>

TotalsNext ==
    \/ \E n \in StepIdx : TT_Completed(n)
    \/ \E n \in StepIdx : TT_Failed(n)
    \/ TT_PipelineCompleted

Totals == RerunInit /\ [][TotalsNext]_vars

(* ------------------- the third run over a folder ----------------------- *)
(* The state files two earlier runs have left: the second run found the    *)
(* completed steps and marked them skipped ("Already completed").         *)
TwiceProcessedStore ==
    [ i \in Items |->
        EarlierRun(EarlierRun(create_initial_state, i, 1), i, 1) ]

ThirdRunInit ==
    InitWith({ Items }, 1, 0, { AllEnabled }, { MaxThreads },
             { TwiceProcessedStore }, { OwnStems })

ThirdRun == ThirdRunInit /\ [][Next]_vars

(* ------------- SingleImageProcessor.process_image ---------------------- *)
(* The places of process_image: the four step blocks, combine_metadata.    *)
BlockPc == << "ocr", "image", "text", "translation", "combine" >>

(* The except clause that catches an exception raised in the block of step *)
(* n: the OCR block has a try/except of its own, the other blocks have     *)
(* only the try/except around the whole body.                              *)
CaughtAt_BodyOnly(n) == "body"

CaughtAt(n) == IF n = 1 THEN "block" ELSE "body"

(* str(e) of an exception raised while the engine object is constructed *)
ConstructionError(n) == "cannot construct engine: " \o pipeline_steps[n]

(* `if success and state[...]['steps'][step].get('data'): <local> = data` *)
StepData(out, n) ==
    IF out.success /\ out.state.steps[pipeline_steps[n]].data # NoData
    THEN out.state.steps[pipeline_steps[n]].data
    ELSE NoData

WithLocal(s, n, data) ==
    CASE n = 1 -> [ s EXCEPT !.ocr_data = data ]
      [] n = 2 -> [ s EXCEPT !.vl_model_data = data ]
      [] n = 3 -> [ s EXCEPT !.text_processing = data ]
      [] OTHER -> [ s EXCEPT !.translation_result = data ]

(* The condition under which the block of step n calls its executor. *)
Attempts(s, n) ==
    /\ s.flags[n]
    /\ n = 4 => /\ s.text_processing # NoData
                /\ need_translation(s.text_processing)

(* the record the combiner builds from the locals of process_image *)
CombinedOf(s) ==
    [ ocr_data |-> s.ocr_data, vl_model_data |-> s.vl_model_data,
      text_processing |-> s.text_processing,
      translation_result |-> s.translation_result ]

(* the combiner returned None *)
NoMetadata == [ metadata |-> NoData ]

(* The except branch of the whole body: the error record is returned. *)
Aborted(s, n) ==
    [ s EXCEPT !.pc = "done", !.aborted = n, !.result = ErrorRecord ]

(* An exception in the block of step n: marked on the state and the next   *)
(* block entered, or the body left.                                        *)
BlockRaises(s, n) ==
    IF CaughtAt(n) = "block"
    THEN [ s EXCEPT !.state = mark_step_failed(@, pipeline_steps[n],
                                               ConstructionError(n)),
                    !.pc = BlockPc[n + 1] ]
    ELSE Aborted(s, n)

(* process_image is called: options resolved, create_initial_state. *)
SI_Begin(i) ==
    /\ single.pc \in { "idle", "done" }
    /\ single.requests < MaxRequests
    /\ \E flags \in [ 1..4 -> BOOLEAN ] :
         single' = [ IdleRequest EXCEPT
                       !.pc = BlockPc[1], !.image = i, !.flags = flags,
                       !.requests = single.requests + 1,
                       !.state = create_initial_state ]
    /\ UNCHANGED << batch, ops, legacy, counters, tracking >>

(* The block of step n (1..4): the engine object is obtained, the executor *)
(* is called with skip_if_completed=False, the local is set from the data. *)
SI_Block(n) ==
    /\ single.pc = BlockPc[n]
    /\ IF ~Attempts(single, n)
       THEN single' = [ single EXCEPT !.pc = BlockPc[n + 1] ]
       ELSE \E constructed \in BOOLEAN,
               r \in Responses(pipeline_steps[n]), d \in Durations :
              LET out == ExecuteStep(n, single.image, single.state, r, d,
                                     FALSE)
              IN  IF ~constructed \/ out.raised
                  THEN single' = BlockRaises(single, n)
                  ELSE single' =
                         [ WithLocal(single, n, StepData(out, n)) EXCEPT
                             !.state = out.state,
                             !.invoked = @ \cup { n },
                             !.pc = BlockPc[n + 1] ]
    /\ UNCHANGED << batch, ops, legacy, counters, tracking >>

(* metadata_combiner.combine_metadata on the locals; its value is returned. *)
SI_Combine ==
    /\ single.pc = "combine"
    /\ \E r \in Responses("metadata_combination") :
         single' = CASE r = "error" -> Aborted(single, LastStep)
                     [] r = "empty" ->
                          [ single EXCEPT !.pc = "done",
                                          !.result = NoMetadata ]
                     [] OTHER ->
                          [ single EXCEPT !.pc = "done",
                                          !.result = CombinedOf(single) ]
    /\ UNCHANGED << batch, ops, legacy, counters, tracking >>

SingleImageNext ==
    \/ \E i \in Items : SI_Begin(i)
    \/ \E n \in 1..4 : SI_Block(n)
    \/ SI_Combine

(* process_image calls on images of a folder that holds no state files, or *)
(* the state files of an earlier batch run.                                *)
SingleImageInit ==
    InitWith({ Items }, 0, 0, { AllEnabled }, { 1 },
             { FreshStore, ProcessedStore }, { OwnStems })

SingleImage == SingleImageInit /\ [][SingleImageNext]_vars

(* ============================ properties =============================== *)
CallsInProgress(i) ==
    Cardinality({ n \in StepIdx : invoked[i][n] > returned[i][n] })

RunsStep(n) == n = LastStep \/ enabled[n]

(* C1: step-major barrier.  While process_images_batch_by_steps runs, if   *)
(* any item's executor call for step B has begun, then for every enabled   *)
(* step A before B the executor call of every item of the batch has        *)
(* returned (its save is part of the same worker call).                    *)
C1_StepBarrier ==
    mode = "step" =>
        \A j \in image_files, B \in StepIdx :
            invoked[j][B] >= 1 =>
                \A i \in image_files, A \in StepIdx :
                    (A < B /\ RunsStep(A)) => returned[i][A] >= 1

C1_Witness ==
    /\ mode = "step"
    /\ num_threads >= 2
    /\ Cardinality(image_files) >= 2
    /\ phase > FirstStep
    /\ \E i, j \in image_files :
         i # j /\ pc[i] = "call" /\ pc[j] = "call" /\ returned[i][FirstStep] = 1

(* C2: item-major ordering.  While process_images_batch runs, every item   *)
(* has at most one executor call in progress, each step's executor is      *)
(* invoked at most once, and a call for step B begins only after the calls *)
(* of all enabled steps before B have returned for that item; the calls of *)
(* different items overlap.                                                *)
C2_ItemMajorOrder ==
    mode = "item" =>
        \A i \in image_files :
            /\ CallsInProgress(i) <= 1
            /\ \A B \in StepIdx :
                 /\ invoked[i][B] <= 1
                 /\ invoked[i][B] >= 1 =>
                      /\ RunsStep(B)
                      /\ \A A \in StepIdx :
                           (A < B /\ RunsStep(A)) => returned[i][A] >= 1

C2_Witness ==
    /\ mode = "item"
    /\ \E i, j \in image_files :
         /\ i # j
         /\ pc[i] = "call" /\ pc[j] = "call"
         /\ k[i] > k[j]
         /\ k[j] > FirstStep

(* process_single_image as a function of the document it finds: load or   *)
(* create, the enabled executors in order with a save after each, then    *)
(* mark_pipeline_completed and the last save.  Each engine gives the      *)
(* answer recorded for (item, step).  An exception leaves the document as *)
(* it was last saved.                                                     *)
RecordedAnswer(i, n) == IF resp[i][n] = Unset THEN "ok" ELSE resp[i][n]

RECURSIVE SingleImageSteps(_, _, _, _)
SingleImageSteps(saved, state, i, n) ==
    IF n = Finished THEN mark_pipeline_completed(state)
    ELSE LET out == ExecuteStep(n, i, state, RecordedAnswer(i, n),
                                CHOOSE d \in Durations : TRUE, TRUE)
         IN  IF out.raised THEN saved
             ELSE SingleImageSteps(out.state, out.state, i, StepAfter(n))

process_single_image(doc, i) ==
    SingleImageSteps(doc, LoadOrCreate(doc, FALSE), i, FirstStep)

(* A document without its durations and total processing time. *)
WithoutTimes(doc) ==
    IF ~IsState(doc) THEN doc
    ELSE [ doc EXCEPT
             !.total_processing_time = 0,
             !.steps = [ s \in DOMAIN doc.steps |->
                           [ doc.steps[s] EXCEPT !.duration = NoDuration ] ] ]

ItemMajorRun ==
    \/ mode = "item"
    \/ mode = "idle" /\ report # NoReport /\ report.kind = "item"

(* The run found item i with a persisted overall_status of completed, and *)
(* the State Store has not failed during the run.                         *)
FoundCompleted(i) ==
    /\ runFaults = 0
    /\ IsState(RecordAtStart(i))
    /\ RecordAtStart(i).overall_status = "completed"

C5_OverallStatus ==
    \A i \in image_files :
        IsState(Record(i)) =>
            /\ Record(i).overall_status = "completed" =>
                  \A n \in StepIdx :
                      RunsStep(n) =>
                          get_step_status(Record(i), pipeline_steps[n])
                              \in { "completed", "skipped" }
            /\ (\E n \in StepIdx : is_step_failed(Record(i), pipeline_steps[n])) =>
                  Record(i).overall_status = "failed"

(* The status of step n in the state dict the worker of item i holds.     *)
WorkerStatus(doc, n) == get_step_status(doc, pipeline_steps[n])

(* The vision, text-correction and translation agents return None when    *)
(* their request failed; their executors raise "... returned no results". *)
ReturnedNoResult(n, r) == n \in { 2, 3, 4 } /\ r = "empty"

ExecutorRaises(i) ==
    IF mode = "item" THEN ~IsState(mem[i])
    ELSE /\ Record(i) # Absent
         /\ ~IsState(Record(i))
         /\ faults' = faults

ReportReturned == mode = "idle" /\ report # NoReport /\ report # ZeroDivisionError

(* The executor of step n ran for item i in this run and left the step    *)
(* record failed.                                                         *)
EndedFailed(i, n) ==
    /\ returned[i][n] >= 1
    /\ IsState(mem[i])
    /\ WorkerStatus(mem[i], n) = "failed"

(* The report's errors list has an entry naming item i with the error     *)
(* message of its step n.  The item-major entry carries the messages of   *)
(* the item's failed steps, each with its step name; a step-major entry   *)
(* carries one message.                                                   *)
ErrorListed(i, n) ==
    LET msg == mem[i].steps[pipeline_steps[n]].error IN
    \E x \in DOMAIN report.errors :
        /\ report.errors[x].image = i
        /\ IF report.kind = "item"
           THEN \E y \in DOMAIN report.errors[x].error :
                    /\ report.errors[x].error[y].step = pipeline_steps[n]
                    /\ report.errors[x].error[y].error = msg
           ELSE report.errors[x].error = msg

(* C10: complete failure listing.  When a batch run of either             *)
(* orchestrator has returned, the errors list of its report has, for      *)
(* every (item, step) whose step record ended failed in the run, an entry *)
(* naming that item with that step's error message.                       *)
C10_AllFailuresListed ==
    ReportReturned =>
        \A i \in image_files, n \in StepIdx :
            EndedFailed(i, n) => ErrorListed(i, n)

(* The (item, step) pairs whose engine call failed. *)
EngineFailures ==
    { x \in image_files \X StepIdx :
        \/ resp[x[1]][x[2]] = "error"
        \/ ReturnedNoResult(x[2], resp[x[1]][x[2]]) }

(* The one thing that went wrong in the run is the engine call of step n  *)
(* for item i.                                                            *)
OnlyFailure(i, n) ==
    /\ run = 1
    /\ \A j \in image_files : RecordAtStart(j) # LegacyDoc
    /\ EngineFailures = { << i, n >> }
    /\ Deviations = 1

(* Every other item went through every step of the run and ended         *)
(* completed, with no step failed.                                        *)
OthersUnaffected(i) ==
    \A j \in image_files \ { i } :
        /\ \A m \in StepIdx : RunsStep(m) => returned[j][m] = 1
        /\ IsState(Record(j))
        /\ Record(j).overall_status = "completed"
        /\ \A m \in StepIdx : ~is_step_failed(Record(j), pipeline_steps[m])

(* The report counts item i as failed and the others as completed: the    *)
(* item-major report per item, the step-major report per step.            *)
CountsOneFailed(i, n) ==
    IF report.kind = "item"
    THEN /\ report.failed_images = 1
         /\ report.successful_images = Cardinality(image_files) - 1
    ELSE \A x \in DOMAIN report.step_details :
             report.step_details[x].failed =
                 IF report.steps[x] = StatsKey(n) THEN 1 ELSE 0

(* C7: failure isolation across items.  When a batch run of either        *)
(* orchestrator has returned and exactly one engine call failed in it,    *)
(* for item i at step n, every other item went through all steps and      *)
(* ended completed, the report counts exactly item i as failed, and its   *)
(* errors list names item i with the step's message and no other item.    *)
C7_FailureIsolation ==
    ReportReturned =>
        \A i \in image_files, n \in StepIdx :
            OnlyFailure(i, n) =>
                /\ OthersUnaffected(i)
                /\ CountsOneFailed(i, n)
                /\ ErrorListed(i, n)
                /\ \A x \in DOMAIN report.errors : report.errors[x].image = i

(* C8: graceful degradation within an item.  In a run of either           *)
(* orchestrator the metadata_combination executor of an item is invoked   *)
(* only after the item's other enabled steps have returned; and when the  *)
(* run has returned its report, the metadata_combination executor has     *)
(* been invoked for every item, and for every step of an item that ended  *)
(* failed every later enabled step of the item had its executor invoked.  *)
C8_GracefulDegradation ==
    /\ \A i \in image_files :
          invoked[i][LastStep] >= 1 =>
              \A m \in StepIdx :
                  (m < LastStep /\ RunsStep(m)) => returned[i][m] >= 1
    /\ ReportReturned =>
          \A i \in image_files :
              /\ invoked[i][LastStep] >= 1
              /\ \A n, m \in StepIdx :
                    (EndedFailed(i, n) /\ n < m /\ RunsStep(m)) =>
                        invoked[i][m] >= 1

(* C9: a batch run never raises.  Whatever the batch, the engine          *)
(* exceptions, the State Store failures and the exceptions raised inside  *)
(* a worker, no exception reaches the caller of process_images_batch or   *)
(* process_images_batch_by_steps, and what the run returns is a report.   *)
C9_NeverRaises ==
    /\ ~escaped
    /\ report # ZeroDivisionError
    /\ (mode = "idle" /\ run >= 1 /\ image_files = { }) => report # NoReport

(* A run has returned its report although an executor raised inside a     *)
(* worker (the foreign document of item 1), an engine raised, and the     *)
(* State Store failed.                                                    *)
C9_Witness ==
    /\ ReportReturned
    /\ RecordAtStart(1) = LegacyDoc
    /\ returned[1][FirstStep] >= 1
    /\ \E i \in image_files, n \in StepIdx :
          called[i][n] = 1 /\ resp[i][n] = "error"
    /\ runFaults >= 1

(* The report's errors list has an entry for item i. *)
HasErrorEntry(i) ==
    \E x \in DOMAIN report.errors : report.errors[x].image = i

(* C11: item-major report counts.  When process_images_batch over n items *)
(* has returned, its report has total_images = processed_images = n and   *)
(* successful_images + failed_images = n, and the errors list has an      *)
(* entry for exactly the items whose persisted overall_status is failed.  *)
C11_ItemReportCounts ==
    (ReportReturned /\ report.kind = "item") =>
        /\ report.total_images = Cardinality(image_files)
        /\ report.processed_images = Cardinality(image_files)
        /\ report.successful_images + report.failed_images
               = Cardinality(image_files)
        /\ \A i \in image_files :
               HasErrorEntry(i) <=>
                   (IsState(Record(i)) /\ Record(i).overall_status = "failed")

(* C12: report determinism.  The errors list of a returned report is in   *)
(* item-key order, whatever the order in which the workers finished, so   *)
(* that the report depends only on the set of collected results.          *)
C12_ReportDeterministic ==
    ReportReturned =>
        \A x, y \in DOMAIN report.errors :
            x < y => report.errors[x].image < report.errors[y].image

(* C13: single writer per persisted record. During one orchestration      *)
(* phase (a run of the item-major pool, one step of the step-major one)    *)
(* the record of a state file is written by the worker of one item only,   *)
(* whatever the distinct image paths of the batch are.                     *)
C13_SingleWriter ==
    \A p \in Items : Cardinality(writers[p]) <= 1

(* C14: atomic save. Whatever a load_state can find in a state file,      *)
(* concurrently with a save_state of the item or after a crash in the      *)
(* middle of one, is a complete record (the previous one or the new one),  *)
(* never a half-written one.                                               *)
C14_AtomicSave ==
    \A i \in image_files : Record(i) # HalfWritten

(* The worker of item i has just loaded or created its state. *)
JustLoaded(i) ==
    /\ mode = "item"
    /\ pc[i] \in { "ready", "call" }
    /\ k[i] = FirstStep

(* C15: load_state answers "absent" only when no record exists. A worker   *)
(* starts from a fresh initial state only when the item has no state file: *)
(* a file that exists but cannot be read is never taken for a missing one. *)
C15_AbsentOnlyWhenMissing ==
    \A i \in image_files :
        (JustLoaded(i) /\ mem[i] = create_initial_state) =>
            Record(i) = Absent

(* The batch report presents item i as failed: the item-major report has  *)
(* an errors entry naming it or counts every item as failed; the           *)
(* step-major report, which names no items, counts a failure in some step. *)
ReportedFailed(i) ==
    IF report.kind = "item"
    THEN HasErrorEntry(i) \/ report.failed_images = Cardinality(image_files)
    ELSE \E x \in DOMAIN report.step_details :
             report.step_details[x].failed >= 1

(* C16: State Store failure isolation. When a batch run has returned,      *)
(* every item whose record the State Store failed to read or write during  *)
(* the run is reported as failed, and every item of the batch was          *)
(* processed all the same.                                                 *)
C16_StoreFailureReported ==
    ReportReturned =>
        /\ \A i \in storeFailed : ReportedFailed(i)
        /\ report.kind = "item" =>
               report.processed_images = Cardinality(image_files)

(* The state file of item i holds what the worker recorded for step n:    *)
(* the step's status and payload, and the step's entry of results.         *)
Persisted(i, n) ==
    /\ IsState(Record(i))
    /\ IsState(mem[i])
    /\ Record(i).steps[pipeline_steps[n]].status =
           mem[i].steps[pipeline_steps[n]].status
    /\ Record(i).steps[pipeline_steps[n]].data =
           mem[i].steps[pipeline_steps[n]].data
    /\ Record(i).results[_get_result_key(pipeline_steps[n])] =
           mem[i].results[_get_result_key(pipeline_steps[n])]

(* C17: a crash loses at most the in-flight step. In item-major           *)
(* orchestration, when the executor call of step k has begun for an item,  *)
(* the item's state file holds the recorded outcome (status and payload)   *)
(* of every earlier step executed for it in this run.                      *)
C17_CrashLosesInFlightOnly ==
    \A i \in image_files :
        (mode = "item" /\ pc[i] = "call") =>
            \A n \in StepIdx :
                (n < k[i] /\ returned[i][n] >= 1) => Persisted(i, n)

StatusOf(state, n) == get_step_status(state, pipeline_steps[n])

(* Step n has been reset and no executor has been called on it since: its  *)
(* record is the pristine pending one and failed_steps does not list it.   *)
PristineAfterReset(n) ==
    afterReset[n] = "reset" =>
        /\ pstate.steps[pipeline_steps[n]] = PristineStep
        /\ ~SeqContains(pstate.failed_steps, pipeline_steps[n])

(* One move of step n's record while it is re-run after a reset. *)
RerunMove(n) ==
    /\ afterReset[n] = "reset" =>
           StatusOf(pstate', n) \in { "pending", "running" }
    /\ afterReset[n] = "rerunning" =>
           /\ StatusOf(pstate, n) = "running"
           /\ StatusOf(pstate', n) \in
                  { "running", "completed", "failed", "skipped" }
    /\ ( StatusOf(pstate', n) = "completed"
            /\ StatusOf(pstate, n) # "completed" ) =>
           StatusOf(pstate, n) = "running"

(* C18: reset and re-run. After reset_failed_step on a failed step the     *)
(* step record is the pristine pending one and the step is not in          *)
(* failed_steps; re-running the step takes it from pending to running and  *)
(* from running to completed, failed or skipped, and no step becomes       *)
(* completed from any status but running.                                  *)
C18_ResetAndRerun ==
    [][ \A n \in StepIdx : PristineAfterReset(n)' /\ RerunMove(n) ]_vars

(* A failed step was reset and its re-run ended completed. *)
C18_Witness ==
    \E n \in StepIdx :
        /\ afterReset[n] = "rerun"
        /\ inExecutor = 0
        /\ StatusOf(pstate, n) = "completed"
        /\ ~SeqContains(pstate.failed_steps, pipeline_steps[n])

(* Item i started the run without a state file, its text extraction gave  *)
(* no text, vision analysis is disabled, the aggregator answered with a    *)
(* record and the State Store did not fail for it.                         *)
MissingInput(i) ==
    /\ ~enabled[2]
    /\ enabled[4]
    /\ resp[i][1] \in { "empty", "error", "no_file" }
    /\ resp[i][5] = "ok"
    /\ RecordAtStart(i) = Absent
    /\ i \notin storeFailed

(* Step n of the item's record is skipped for the given reason and its     *)
(* engine was not called.                                                  *)
SkippedWithoutCall(i, n, reason) ==
    /\ Record(i).steps[pipeline_steps[n]].status = "skipped"
    /\ Record(i).steps[pipeline_steps[n]].error = "Skipped: " \o reason
    /\ called[i][n] = 0

(* C19: missing-input scenario. When a batch run has returned, an item     *)
(* with no text-extraction output and vision analysis disabled has its     *)
(* text-correction step skipped with reason "No text available" and its    *)
(* translation step skipped with reason "No text processing data", neither *)
(* engine having been invoked; its aggregation step is completed with a    *)
(* record and its overall_status is completed.                             *)
C19_MissingInputScenario ==
    ReportReturned =>
        \A i \in image_files :
            MissingInput(i) =>
                /\ IsState(Record(i))
                /\ SkippedWithoutCall(i, 3, "No text available")
                /\ SkippedWithoutCall(i, 4, "No text processing data")
                /\ Record(i).steps["metadata_combination"].status = "completed"
                /\ Record(i).steps["metadata_combination"].data = "combined"
                /\ Record(i).results["combined_metadata"] = "combined"
                /\ Record(i).overall_status = "completed"

(* A run of either orchestrator has returned with such an item. *)
C19_Witness ==
    /\ ReportReturned
    /\ \E i \in image_files :
           /\ MissingInput(i)
           /\ resp[i][1] = "empty"
           /\ returned[i][3] = 1
           /\ returned[i][4] = 1

(* results[step] and steps[step].data of a state hold the same payload. *)
InSync(state, step) ==
    state.results[_get_result_key(step)] = state.steps[step].data

(* C20: results/data sync. In every state reached by executor runs (which  *)
(* call mark_step_completed, mark_step_failed and mark_step_skipped) and   *)
(* reset_failed_step, results[step] and steps[step].data hold the same     *)
(* payload for every step: both null or both the same value.               *)
C20_ResultsDataSync ==
    \A step \in StepNames : InSync(pstate, step)

(* C21: outcome of the OCR-only process_single_image. It never raises: it *)
(* returns a tuple. The tuple says success only when the result document   *)
(* of the image has been written, and whenever extraction, formatting or   *)
(* the write raised it says failure and its result data has an error       *)
(* entry.                                                                  *)
C21_LegacyOutcome ==
    \A i \in Items :
        legacyOut[i] # NotReturned =>
            /\ "success" \in DOMAIN legacyOut[i]
            /\ legacyOut[i].success => legacyFile[i] = ResultDocument
            /\ legacyRun[i].raised # "none" =>
                   /\ ~legacyOut[i].success
                   /\ "error" \in DOMAIN legacyOut[i].result_data

(* One call returned after its write had raised, another after a write    *)
(* that went through.                                                      *)
C21_Witness ==
    \E i, j \in Items :
        /\ legacyOut[i] # NotReturned /\ legacyRun[i].raised = "write"
        /\ legacyOut[j] # NotReturned /\ legacyRun[j].raised = "none"
        /\ legacyOut[j].success

(* C22: after any sequence of _update_stats calls, calls made by several   *)
(* worker threads at once included, processed_images is the number of      *)
(* calls, failed_images the number of calls with success false,            *)
(* processing_times has one entry per call and errors one entry per failed *)
(* call that carried an error message.                                     *)
C22_StatsCounts ==
    /\ processing_stats.processed_images = updates.calls
    /\ processing_stats.failed_images = updates.failed
    /\ Len(processing_stats.processing_times) = updates.calls
    /\ Len(processing_stats.errors) = updates.with_error

(* two calls have returned, one failed with a message and one failed       *)
(* without, and of two further calls made at once one holds the lock and   *)
(* the other waits for it                                                  *)
C22_Witness ==
    /\ updates.calls = 2
    /\ updates.failed = 2
    /\ updates.with_error = 1
    /\ processing_stats.processed_images = 2
    /\ \E t, u \in Threads :
         updater[t].pc = "locked" /\ updater[u].pc = "waiting"

(* the counts the manager reports agree with the calls that have returned *)
TrackedCounts ==
    /\ \A rt \in RequestTypes :
         /\ get_stats_of(perf_stats, rt) = SumOver(tracked[rt], ModelNames)
         /\ SumOver([ m \in ModelNames |->
                        perf_stats[rt].models[m].request_count ], ModelNames)
              = SumOver(tracked[rt], ModelNames)
    /\ get_stats(perf_stats) =
         SumOver([ rt \in RequestTypes |-> SumOver(tracked[rt], ModelNames) ],
                 RequestTypes)

(* C23: after any sequence of track_request calls since the last           *)
(* reset_stats, calls made by several threads at once included, each       *)
(* request type's total_requests is the number of calls for that type and  *)
(* the sum of request_count over its models, get_stats() reports the       *)
(* number of all calls as total_requests, and reset_stats returns every    *)
(* count to zero.                                                          *)
C23_TrackedCounts ==
    [][ /\ TrackedCounts'
        /\ reset_stats =>
             /\ get_stats(perf_stats') = 0
             /\ \A rt \in RequestTypes :
                  /\ get_stats_of(perf_stats', rt) = 0
                  /\ \A m \in ModelNames :
                       perf_stats'[rt].models[m].request_count = 0 ]_vars

(* calls for two models of one request type have returned and the counts   *)
(* show them, while a further call waits at the lock                       *)
C23_Witness ==
    /\ tracked["image"]["qwen"] = 1
    /\ tracked["image"]["llava"] = 1
    /\ get_stats_of(perf_stats, "image") = 2
    /\ get_stats(perf_stats) = 2
    /\ \E t \in Threads : tracker[t].pc = "waiting"

(* the edges of the step state machine: pending -> running, running ->     *)
(* completed, running -> failed, pending/running -> skipped, and failed -> *)
(* pending by a reset                                                      *)
StateMachineEdges ==
    { << "pending", "running" >>, << "running", "completed" >>,
      << "running", "failed" >>, << "pending", "skipped" >>,
      << "running", "skipped" >>, << "failed", "pending" >> }

(* C24: step state machine. Over any sequence of executor calls and resets *)
(* every change of a step record's status follows an edge of the state     *)
(* machine; no other change of status (completed -> skipped, failed ->     *)
(* running, skipped -> running) occurs.                                    *)
C24_StepStateMachine ==
    [][ \A n \in StepIdx :
          StatusOf(pstate', n) # StatusOf(pstate, n) =>
              << StatusOf(pstate, n), StatusOf(pstate', n) >>
                  \in StateMachineEdges ]_vars

(* What the executor of step n gives when it is called on the present      *)
(* state and its engine raises.                                            *)
WhenEngineRaises(n, skip_if_completed) ==
    ExecuteStep(n, 1, pstate, "error", 1, skip_if_completed)

(* C25: exception containment in the executor. For every step, an          *)
(* exception raised by the engine invocation does not leave the executor:  *)
(* the executor returns (false, state) with the step's record failed, its  *)
(* error text set, the step in failed_steps and overall_status failed.     *)
C25_EngineExceptionContained ==
    \A n \in StepIdx, skip_if_completed \in BOOLEAN :
        LET out == WhenEngineRaises(n, skip_if_completed)
            step == pipeline_steps[n]
        IN  out.called =>
                /\ ~out.raised
                /\ ~out.success
                /\ out.state.steps[step].status = "failed"
                /\ out.state.steps[step].error = EngineError(1, step)
                /\ SeqContains(out.state.failed_steps, step)
                /\ out.state.overall_status = "failed"

(* an executor has returned after its engine raised, in a state in which   *)
(* an earlier step had completed and another one had failed before         *)
C25_Witness ==
    /\ inExecutor = 0
    /\ pstate.steps["ocr_processing"].status = "completed"
    /\ pstate.steps["image_agent_analysis"].status = "failed"
    /\ pstate.steps["text_agent_processing"].status = "failed"
    /\ pstate.steps["text_agent_processing"].error =
           EngineError(1, "text_agent_processing")
    /\ pstate = ExecuteStep(3, 1, pstate, "error", 1, TRUE).state

(* the executors that test their engine's payload: image agent, text       *)
(* agent, translator                                                       *)
PayloadChecked == { 2, 3, 4 }

(* What the executor of step n gives when it is called on the present      *)
(* state and its engine returns an empty payload.                          *)
WhenPayloadEmpty(n, skip_if_completed) ==
    ExecuteStep(n, 1, pstate, "empty", 1, skip_if_completed)

(* C26: empty payload is a skip. When a step's engine returns an empty     *)
(* payload although its input was present, the executor records the step   *)
(* as skipped with a reason, not as failed, and does not add the step to   *)
(* failed_steps.                                                           *)
C26_EmptyPayloadSkipped ==
    \A n \in PayloadChecked, skip_if_completed \in BOOLEAN :
        LET out == WhenPayloadEmpty(n, skip_if_completed)
            step == pipeline_steps[n]
        IN  out.called =>
                /\ out.state.steps[step].status = "skipped"
                /\ out.state.steps[step].error # NoError
                /\ SeqContains(out.state.failed_steps, step) =>
                       SeqContains(pstate.failed_steps, step)

(* the text-correction result is present, its needTranslation flag is set  *)
(* and it holds text to translate                                          *)
TranslationDue(state) ==
    state.results["text_processing"] = "tp_needs_translation"

(* C27: conditional translation. The translation engine is invoked only    *)
(* when the text-correction result is present, its needs-translation flag  *)
(* is true and there is text to translate; in every other case the         *)
(* translation step ends skipped, the executor returns success and the     *)
(* translation engine is not called.                                       *)
C27_ConditionalTranslation ==
    \A r \in Responses("translation"), skip_if_completed \in BOOLEAN :
        LET out == ExecuteStep(4, 1, pstate, r, 1, skip_if_completed) IN
        /\ out.called => TranslationDue(pstate)
        /\ ~TranslationDue(pstate) =>
               /\ ~out.called
               /\ ~out.raised
               /\ out.success
               /\ out.state.steps["translation"].status = "skipped"

(* the translation executor has returned skipped on a text-correction      *)
(* result whose flag is set although it holds no text                      *)
C27_Witness ==
    /\ inExecutor = 0
    /\ nextCall = 5
    /\ pstate.results["text_processing"] = "tp_flag_without_text"
    /\ pstate.steps["translation"].status = "skipped"
    /\ pstate.steps["translation"].error = "Skipped: Translation not needed"

(* The record of step n in the state the run found for item i; a run that  *)
(* finds no readable state starts from create_initial_state.               *)
StepAtStart(i, n) ==
    IF IsState(RecordAtStart(i))
    THEN RecordAtStart(i).steps[pipeline_steps[n]]
    ELSE PristineStep

(* C28: disabled or engine-less steps are omitted. When a step is disabled *)
(* or its engine handle is absent, neither orchestrator calls the step's   *)
(* executor, and the step's record in every item's state, in memory and    *)
(* persisted, is left as the run found it (not marked skipped or failed).  *)
C28_DisabledStepsOmitted ==
    \A i \in image_files, n \in StepIdx :
        ~RunsStep(n) =>
            /\ invoked[i][n] = 0
            /\ called[i][n] = 0
            /\ IsState(Record(i)) =>
                   Record(i).steps[pipeline_steps[n]] = StepAtStart(i, n)
            /\ IsState(mem[i]) =>
                   mem[i].steps[pipeline_steps[n]] = StepAtStart(i, n)

(* the executor calls that have begun and not returned, over all items *)
ExecutorCallsInProgress ==
    { x \in image_files \X StepIdx : invoked[x[1]][x[2]] > returned[x[1]][x[2]] }

(* C29: bounded concurrency. At every moment of a batch run of either      *)
(* orchestrator the number of executor calls in progress is at most the    *)
(* configured number of worker threads, whatever the size of the batch.    *)
C29_BoundedConcurrency ==
    mode # "idle" => Cardinality(ExecutorCallsInProgress) <= num_threads

(* with one worker thread and two items, an executor call is in progress   *)
(* while the other item waits for the thread                               *)
C29_Witness ==
    /\ mode # "idle"
    /\ num_threads = 1
    /\ Cardinality(ExecutorCallsInProgress) = 1
    /\ \E j \in image_files : pc[j] = "queued"

(* A worker call of this run for item i has come back from its executor    *)
(* with a state.                                                           *)
Recorded(i) == IsState(mem[i])

(* C30: step-major incremental persistence. In step-major orchestration    *)
(* each item's state is saved inside the item's worker call as soon as its *)
(* executor returns, so that when the worker of a later step is about to   *)
(* load the item's state, the state file holds the outcome and payload     *)
(* which every earlier step executed in this run recorded for the item.    *)
C30_StepMajorPersistence ==
    \A i \in image_files :
        (mode = "step" /\ pc[i] = "call") =>
            \A n \in StepIdx :
                (n < k[i] /\ returned[i][n] >= 1 /\ Recorded(i)) =>
                    Persisted(i, n)

(* The pool of the step in hand has drained: every worker call of the step *)
(* has been collected by the as_completed loop.                            *)
PoolDrained ==
    /\ mode = "step"
    /\ \A i \in image_files : pc[i] = "done" /\ returned[i][phase] >= 1

(* the items whose worker call of the step in hand returned success with   *)
(* the step's record skipped                                               *)
ReturnedSkipped ==
    { i \in image_files :
        /\ returned[i][phase] >= 1
        /\ IsState(mem[i])
        /\ mem[i].steps[pipeline_steps[phase]].status = "skipped" }

(* C31: step summary partition. Once the pool of a step has drained, the   *)
(* step's successful, failed and skipped counts add up to the number of    *)
(* items, and skipped counts the items whose executor returned success     *)
(* with the step's record skipped.                                         *)
C31_StepSummaryPartition ==
    PoolDrained =>
        /\ stats.step.successful + stats.step.failed + stats.step.skipped
             = Cardinality(image_files)
        /\ stats.step.skipped = Cardinality(ReturnedSkipped)

(* the pool of a step has drained with one item skipped and one failed *)
C31_Witness ==
    /\ PoolDrained
    /\ stats.step.skipped = 1
    /\ stats.step.failed = 1
    /\ stats.step.successful = 0

(* a list that names no step twice *)
NoDuplicates(list) ==
    \A a, b \in DOMAIN list : list[a] = list[b] => a = b

(* C32: failed_steps is the set of failed steps. In every state reached by *)
(* executor runs and resets, failed_steps names no step twice and names a  *)
(* step exactly when the step's status is failed.                          *)
C32_FailedStepsExact ==
    /\ NoDuplicates(pstate.failed_steps)
    /\ \A n \in StepIdx :
         SeqContains(pstate.failed_steps, pipeline_steps[n])
             <=> StatusOf(pstate, n) = "failed"

(* C33: payload only while completed. In every state reached through the   *)
(* executors and reset_failed_step, a step record has a data payload or a  *)
(* duration only if its status is completed; pending, running, failed and  *)
(* skipped records carry none.                                             *)
C33_PayloadOnlyWhileCompleted ==
    \A n \in StepIdx :
        LET rec == pstate.steps[pipeline_steps[n]] IN
        (rec.data # NoData \/ rec.duration # NoDuration) =>
            rec.status = "completed"

(* the recorded duration of a step, zero when none is recorded *)
RecordedDuration(state, step) ==
    IF state.steps[step].duration = NoDuration THEN 0
    ELSE state.steps[step].duration

(* C34: pipeline completion totals. mark_pipeline_completed sets           *)
(* overall_status to completed, clears current_step and sets               *)
(* total_processing_time to the sum of the recorded durations of all the   *)
(* item's steps, a step without a recorded duration contributing zero.     *)
C34_CompletionTotals ==
    nextCall = Finished + 1 =>
        /\ pstate.overall_status = "completed"
        /\ pstate.current_step = NoStep
        /\ pstate.total_processing_time =
               RecordedDuration(pstate, "ocr_processing")
               + RecordedDuration(pstate, "image_agent_analysis")
               + RecordedDuration(pstate, "text_agent_processing")
               + RecordedDuration(pstate, "translation")
               + RecordedDuration(pstate, "metadata_combination")

(* the pipeline has been marked completed over steps with durations 2, 1   *)
(* and 0 and two failed steps without one                                  *)
C34_Witness ==
    /\ nextCall = Finished + 1
    /\ pstate.steps["ocr_processing"].duration = 2
    /\ pstate.steps["image_agent_analysis"].duration = NoDuration
    /\ pstate.steps["text_agent_processing"].duration = 1
    /\ pstate.steps["translation"].duration = NoDuration
    /\ pstate.steps["metadata_combination"].duration = 0
    /\ pstate.total_processing_time = 3

(* The state file of item i holds the payload of a successful completion   *)
(* of step n (only mark_step_completed writes it).                         *)
CompletionPersisted(i, n) ==
    /\ IsState(Record(i))
    /\ Record(i).results[_get_result_key(pipeline_steps[n])] # NoData

(* C35: resume never re-invokes a finished engine call. Across successive  *)
(* runs and crash-and-restart cycles of either orchestrator over the same  *)
(* items, without a reset, the engine of a step whose successful           *)
(* completion has been persisted for an item is not invoked again for      *)
(* that item.                                                              *)
C35_NoReinvocation ==
    [][ \A i \in image_files, n \in StepIdx :
          called'[i][n] > called[i][n] => ~CompletionPersisted(i, n) ]_vars

(* What process_metadata_combination_step gives when it is called on the   *)
(* present state and the combiner answers r.                               *)
WhenCombined(r, skip_if_completed) ==
    ExecuteStep(LastStep, 1, pstate, r, 1, skip_if_completed)

ShowsRunning(i) ==
    /\ IsState(Record(i))
    /\ \E n \in StepIdx : Record(i).steps[pipeline_steps[n]].status = "running"

(* C37: in every reachable store state no persisted record contains a step *)
(* with status running, even after a crash during an engine call: both     *)
(* orchestrators call save_state only after the step executor has          *)
(* returned, and the executor leaves the step completed, failed or skipped. *)
C37_NoRunningPersisted == \A i \in Items : ~ShowsRunning(i)

(* the process was killed while the vision executor of an item was inside  *)
(* its engine call; the item's state file has the OCR step completed and   *)
(* the vision step still pending                                           *)
C37_Witness ==
    /\ mode = "idle"
    /\ report = NoReport
    /\ \E i \in image_files :
         /\ invoked[i][2] > returned[i][2]
         /\ IsState(Record(i))
         /\ Record(i).steps["ocr_processing"].status = "completed"
         /\ Record(i).steps["image_agent_analysis"].status = "pending"

(* A batch run over a non-empty batch has returned its report. *)
RunReturned == mode = "idle" /\ report # NoReport /\ image_files # {}

(* How often a finished run invokes the executor of step n for one item. *)
Dispatches(n) == IF RunsStep(n) THEN 1 ELSE 0

(* C38: exactly-once dispatch.  In one batch run of either orchestrator    *)
(* the executor of every enabled step is invoked exactly once for every    *)
(* item of the batch, no item is dropped and none is processed twice, for  *)
(* every thread count and completion order.                                *)
C38_ExactlyOnce ==
    /\ \A i \in image_files, n \in StepIdx : invoked[i][n] <= Dispatches(n)
    /\ RunReturned =>
           \A i \in image_files, n \in StepIdx : invoked[i][n] = Dispatches(n)

(* When the run began every state file of the batch was missing or a       *)
(* pipeline state: none was a document without pipeline_status and steps   *)
(* (a file of another format, a file cut short by a crash), on which the   *)
(* first executor raises KeyError and ends process_single_image.           *)
NoForeignDocAtStart ==
    \A i \in image_files :
        RecordAtStart(i) = Absent \/ IsState(RecordAtStart(i))

(* C38 apart from that exception: no executor is invoked twice or for a    *)
(* disabled step, and a run that began without such documents has invoked  *)
(* every enabled executor once for every item when it returns.             *)
C38_ExactlyOnceOnStates ==
    /\ \A i \in image_files, n \in StepIdx : invoked[i][n] <= Dispatches(n)
    /\ RunReturned /\ NoForeignDocAtStart =>
           \A i \in image_files, n \in StepIdx : invoked[i][n] = Dispatches(n)

(* the request has been through the block of step n *)
PastBlock(n) ==
    single.pc \in { BlockPc[m] : m \in (n + 1)..LastStep } \cup { "done" }

(* What holds in every state of a process_image call.                      *)
ProcessImageState ==
    /\ store = runStart
    /\ single.pc = "ocr" => single.state = create_initial_state
    /\ single.pc # "idle" =>
         /\ single.state.steps["metadata_combination"] = PristineStep
         /\ \A n \in 1..4 :
              ~single.flags[n] =>
                  single.state.steps[pipeline_steps[n]] = PristineStep
    /\ single.pc = "done" =>
         /\ single.result # NotReturned
         /\ single.aborted # 0 <=> single.result = ErrorRecord
         /\ single.aborted = 0 =>
                single.result \in { NoMetadata, CombinedOf(single) }

(* What holds of every step of a process_image call.                       *)
ProcessImageStep ==
    /\ single.pc = "ocr" /\ single'.pc # "ocr" => single'.pc = "image"
    /\ \A n \in 2..3 :
         /\ single.pc = BlockPc[n]
         /\ single.state.steps["ocr_processing"].status = "failed"
         /\ single.flags[n]
         /\ single'.aborted = 0
         => n \in single'.invoked

====
